---- MODULE Spec2Model ----
(***************************************************************************)
(* WorldIndex API (src/index.js): the Lookup Cache with its shared TTL     *)
(* clock, the handlers that read it, the localisation of record fields and *)
(* the parser of the semicolon/newline table payload.                      *)
(*                                                                         *)
(* The handlers are async functions on one event loop: a handler runs      *)
(* without interruption from one `await` to the next, so every action      *)
(* below is one such synchronous segment.                                  *)
(***************************************************************************)
EXTENDS Integers, Sequences, FiniteSets, TLC

VARIABLES
    categoryMapCache,   \* src/index.js:26
    contentHubsCache,   \* src/index.js:27
    commentMapCache,    \* src/index.js:28
    divisionsCache,     \* src/index.js:29
    cacheLastLoaded,    \* src/index.js:30
    PRIV,               \* src/index.js:13, process.env.PRIVATE_API_KEY
    now,                \* Date.now(), in units of half an hour
    airtable,           \* the backing store: table name -> sequence of records
    req,                \* the getter calls in flight (awaiting a page)
    last,               \* what the getter called last gave its handler
    mainRecord,         \* the main-table record the backing store holds
    metadataRecord,     \* the fields of the Metadata record it links to
    out,                \* the response of the record handler that ran last
    observe,            \* whether this specification keeps the history below
    upstreamVer,        \* history: number of changes made to the backing store
    refreshVer,         \* history: { upstreamVer } at the last authorized refresh
    loadedAt            \* history: when each sub-cache's content was stored

vars == <<categoryMapCache, contentHubsCache, commentMapCache, divisionsCache,
          cacheLastLoaded, PRIV, now, airtable, req, last,
          mainRecord, metadataRecord, out,
          observe, upstreamVer, refreshVer, loadedAt>>

render == <<mainRecord, metadataRecord, out>>

history == <<observe, upstreamVer, refreshVer, loadedAt>>

cacheVars == <<categoryMapCache, contentHubsCache, commentMapCache,
               divisionsCache, cacheLastLoaded>>

-----------------------------------------------------------------------------
(* Bounds of the model *)

\* clock ticks the model lets pass
MaxTicks == 2
\* changes the environment makes to the backing store
MaxUpstreamChanges == 1
\* records per page of a list fetch (the code asks for 100)
PageSize == 1

\* the request handlers that may be in flight together
Reqs == {"r1", "r2"}

\* a request that must wait takes the first free slot
FirstReq == "r1"

-----------------------------------------------------------------------------
(* Program constants *)

\* 60 * 60 * 1000 ms, in units of half an hour
CACHE_TTL_MS == 2

CATS == "Categories"
CONTENT_HUBS_TABLE == "Content hubs"
COMMENT_TABLE == "Comment"
DIVISIONS_TABLE == "Divisions"

Tables == {CATS, CONTENT_HUBS_TABLE, COMMENT_TABLE, DIVISIONS_TABLE}

-----------------------------------------------------------------------------
(* JavaScript values *)

\* the value of a missing property
Undefined == "<undefined>"

\* obj[key]
Get(obj, key) == IF key \in DOMAIN obj THEN obj[key] ELSE Undefined

\* null
JsNull == "<null>"

\* ToBoolean of a string, undefined or null
Truthy(v) == v # Undefined /\ v # JsNull /\ v # ""

\* A plain object used as a map: its entries in insertion order, as
\* `for ... in` and Object.keys enumerate them.
EmptyMap == << >>

MapKeys(m) == { m[i].k : i \in DOMAIN m }

MapHas(m, key) == key \in MapKeys(m)

MapGet(m, key) == m[CHOOSE i \in DOMAIN m : m[i].k = key].v

\* map[key] = value: an existing key keeps its place
MapSet(m, key, value) ==
    IF MapHas(m, key)
    THEN [i \in DOMAIN m |-> IF m[i].k = key THEN [k |-> key, v |-> value] ELSE m[i]]
    ELSE Append(m, [k |-> key, v |-> value])

\* a cache variable: null, or a map
Null == [null |-> TRUE, map |-> EmptyMap]

Loaded(m) == [null |-> FALSE, map |-> m]

-----------------------------------------------------------------------------
(* The backing store *)

recC1 ==
    [ id |-> "recC1",
      fields |-> [ TitleEN |-> "Poland", Secondary |-> "Economy", SecondaryEN |-> "Economy",
                   SecondaryPL |-> "Gospodarka", Poland |-> << "recP1" >> ] ]
recC2 == [id |-> "recC2", fields |-> [TitleEN |-> "Germany"]]
recC3 == [id |-> "recC3", fields |-> [TitleEN |-> "Poland"]]
recH1 == [id |-> "recH1", fields |-> [Title |-> "AI", TitleEN |-> "Artificial Intelligence"]]
recH2 == [id |-> "recH2", fields |-> [TitleEN |-> "Economy"]]
recH3 == [id |-> "recH3", fields |-> [Title |-> "AI", TitleEN |-> "AI again"]]
recM1 == [id |-> "recM1", fields |-> [AICommentEN |-> "Prices rose", AICommentPL |-> "Ceny wzrosly"]]
recD1 == [id |-> "recD1", fields |-> [Title |-> "North", Poland |-> << "recP1" >>]]
recD2 == [id |-> "recD2", fields |-> [Title |-> "South", DataID |-> "2"]]

\* the tables of the backing store when the process starts: a hub without a
\* Title, and two hubs of the same Title
InitialTables ==
    [t \in Tables |->
        CASE t = CATS -> << recC1, recC2 >>
          [] t = CONTENT_HUBS_TABLE -> << recH3, recH2, recH1 >>
          [] t = COMMENT_TABLE -> << recM1 >>
          [] t = DIVISIONS_TABLE -> << recD1, recD2 >> ]

\* the records the owner of the backing store may add to a table
Pool == [t \in Tables |-> IF t = CATS THEN { recC3 } ELSE {}]

\* the error texts a failing fetch carries
UpstreamErrors == { "Request failed with status code 503" }

\* the offset parameter of the first page (null), and an absent offset token
NoOffset == 0

\* the place of a record that was removed from its table: the offset token
\* is a cursor, so a removal does not move the records after it
Removed == [id |-> "<removed>", fields |-> << >>]

\* the records a table holds
Live(tbl) == SelectSeq(tbl, LAMBDA rec : rec # Removed)

\* One page of the list operation: the records in the PageSize places after
\* `offset`, and the token of the next page when places remain.
ListPage(tbl, offset) ==
    LET end == IF offset + PageSize < Len(tbl) THEN offset + PageSize ELSE Len(tbl)
    IN  [ records |-> Live(SubSeq(tbl, offset + 1, end)),
          offset  |-> IF end < Len(tbl) THEN end ELSE NoOffset ]

-----------------------------------------------------------------------------
(* The Lookup Cache *)

CacheOf(t) ==
    CASE t = CATS -> categoryMapCache
      [] t = CONTENT_HUBS_TABLE -> contentHubsCache
      [] t = COMMENT_TABLE -> commentMapCache
      [] t = DIVISIONS_TABLE -> divisionsCache

\* a freshness test that still accepts an age of exactly CACHE_TTL_MS
isCacheFresh_Inclusive == (now - cacheLastLoaded) <= CACHE_TTL_MS

isCacheFresh == (now - cacheLastLoaded) < CACHE_TTL_MS

\* the freshness test that opens each of the four getters
ServedFromCache(t) == ~CacheOf(t).null /\ isCacheFresh

\* a Content hubs getter that keys by record id like the other three
StoreRecords_ById(t, map, recs) ==
    map \o [i \in DOMAIN recs |-> [k |-> recs[i].id, v |-> recs[i].fields]]

\* r.data.records.forEach(rec => ...) of the getter of table t
RECURSIVE StoreRecords(_, _, _)
StoreRecords(t, map, recs) ==
    IF recs = << >> THEN map
    ELSE LET rec == Head(recs)
             next == IF t = CONTENT_HUBS_TABLE
                     THEN IF Truthy(Get(rec.fields, "Title"))
                          THEN MapSet(map, rec.fields.Title, [id |-> rec.id] @@ rec.fields)
                          ELSE map
                     ELSE MapSet(map, rec.id, rec.fields)
         IN  StoreRecords(t, next, Tail(recs))

\* a store that leaves the shared timestamp alone
StoreCache_KeepClock(t, value) ==
    /\ categoryMapCache' = IF t = CATS THEN value ELSE categoryMapCache
    /\ contentHubsCache' = IF t = CONTENT_HUBS_TABLE THEN value ELSE contentHubsCache
    /\ commentMapCache' = IF t = COMMENT_TABLE THEN value ELSE commentMapCache
    /\ divisionsCache' = IF t = DIVISIONS_TABLE THEN value ELSE divisionsCache
    /\ cacheLastLoaded' = cacheLastLoaded

\* xCache = map; cacheLastLoaded = Date.now()
StoreCache(t, value) ==
    /\ categoryMapCache' = IF t = CATS THEN value ELSE categoryMapCache
    /\ contentHubsCache' = IF t = CONTENT_HUBS_TABLE THEN value ELSE contentHubsCache
    /\ commentMapCache' = IF t = COMMENT_TABLE THEN value ELSE commentMapCache
    /\ divisionsCache' = IF t = DIVISIONS_TABLE THEN value ELSE divisionsCache
    /\ cacheLastLoaded' = now

\* the body of POST /cache/refresh
ClearCaches ==
    /\ categoryMapCache' = Null
    /\ contentHubsCache' = Null
    /\ commentMapCache' = Null
    /\ divisionsCache' = Null
    /\ cacheLastLoaded' = 0

\* requireApiKey lets the request through
KeyAccepted(header) == ~(header # PRIV)

\* e.toString() of the Error a failed fetch throws
ErrorToString(message) == << "Error: ", message >>

\* GET /countries: the sorted list of the distinct truthy TitleEN values
\* (a sorted list without duplicates is determined by its set)
Countries(allCategories) ==
    { Get(allCategories[i].v, "TitleEN") : i \in DOMAIN allCategories } \ { Undefined, "" }

-----------------------------------------------------------------------------
(* Request handlers *)

\* the values the x-api-key header may take (Undefined: no header)
Headers == { Undefined, "secret", "wrong" }

\* the value of refreshVer before any authorized refresh
NoRefresh == {}

Idle ==
    [ pc |-> "idle", table |-> "none", map |-> EmptyMap, offset |-> NoOffset,
      pages |-> 0, startVer |-> 0, startRefresh |-> NoRefresh ]

NoResponse ==
    [ op |-> "none", table |-> "none", status |-> 0, hit |-> FALSE,
      ret |-> EmptyMap, pages |-> 0, countries |-> {}, error |-> << >>,
      replaced |-> Null ]

\* no main-table record matches the id asked
NoRecord == [id |-> "", fields |-> << >>]

\* no record handler has run
NoOut ==
    [ op |-> "none", q |-> Undefined, status |-> 0, meta |-> << >>, items |-> << >>,
      data |-> << >>, translations |-> << >>, error |-> "", count |-> 0,
      country |-> Undefined, category |-> Undefined, contentHub |-> Undefined,
      filterFormula |-> "", fetched |-> FALSE, comments |-> << >> ]

\* the slot a handler that must await a page takes
FreeSlot(r) ==
    /\ req[r].pc = "idle"
    /\ r # FirstReq => req[FirstReq].pc # "idle"

\* res.json(...) of a handler whose getter returned `ret`; `replaced` is
\* history: what the sub-cache held when the getter stored `ret`
Respond(t, wasHit, ret, pages) ==
    [ NoResponse EXCEPT !.op = "load", !.table = t, !.status = 200,
                        !.hit = wasHit, !.ret = ret, !.pages = pages,
                        !.countries = IF t = CATS THEN Countries(ret) ELSE {},
                        !.replaced = IF wasHit \/ ~observe THEN Null ELSE CacheOf(t) ]

\* history: sub-cache t was stored now
Stored(t) == loadedAt' = IF observe THEN [loadedAt EXCEPT ![t] = now] ELSE loadedAt

\* res.status(500).json({ error: e.toString() }) of the handler's catch
RespondError(t, message, pages) ==
    [ NoResponse EXCEPT !.op = "load", !.table = t, !.status = 500,
                        !.pages = pages, !.error = ErrorToString(message) ]

\* A handler reaches `await loadAllX()` and the getter answers from the cache.
CallHit(t) ==
    /\ ServedFromCache(t)
    /\ last' = Respond(t, TRUE, CacheOf(t).map, 0)
    /\ UNCHANGED <<cacheVars, PRIV, now, airtable, req, history>>
    /\ UNCHANGED render

\* a getter that starts from the map it is about to replace
NewMap_Merge(t) == CacheOf(t).map

\* let map = {}
NewMap(t) == EmptyMap

\* A handler reaches `await loadAllX()` and the getter sends the request for
\* the first page.
CallMiss(r, t) ==
    /\ ~ServedFromCache(t)
    /\ FreeSlot(r)
    /\ req' = [req EXCEPT ![r] =
            [ Idle EXCEPT !.pc = "fetching", !.table = t, !.map = NewMap(t),
                          !.startVer = upstreamVer, !.startRefresh = refreshVer ]]
    /\ UNCHANGED <<cacheVars, PRIV, now, airtable, last, history>>
    /\ UNCHANGED render

\* a getter that builds its map in the sub-cache itself, page by page
FetchPage_StoreEachPage(r) ==
    /\ req[r].pc = "fetching"
    /\ LET t == req[r].table
           page == ListPage(airtable[t], req[r].offset)
           map == StoreRecords(t, req[r].map, page.records)
       IN  IF page.offset # NoOffset
           THEN /\ req' = [req EXCEPT ![r].map = map, ![r].offset = page.offset,
                                      ![r].pages = @ + 1]
                /\ StoreCache_KeepClock(t, Loaded(map))
                /\ UNCHANGED <<last, loadedAt>>
           ELSE /\ StoreCache(t, Loaded(map))
                /\ Stored(t)
                /\ req' = [req EXCEPT ![r] = Idle]
                /\ last' = Respond(t, FALSE, map, req[r].pages + 1)
    /\ UNCHANGED <<PRIV, now, airtable, observe, upstreamVer, refreshVer>>
    /\ UNCHANGED render

\* A page arrives: its records go into the local map; the loop asks for the
\* next page, or the getter stores the map and the handler responds.
FetchPage(r) ==
    /\ req[r].pc = "fetching"
    /\ LET t == req[r].table
           page == ListPage(airtable[t], req[r].offset)
           map == StoreRecords(t, req[r].map, page.records)
       IN  IF page.offset # NoOffset
           THEN /\ req' = [req EXCEPT ![r].map = map, ![r].offset = page.offset,
                                      ![r].pages = @ + 1]
                /\ UNCHANGED <<cacheVars, last, loadedAt>>
           ELSE /\ StoreCache(t, Loaded(map))
                /\ Stored(t)
                /\ req' = [req EXCEPT ![r] = Idle]
                /\ last' = Respond(t, FALSE, map, req[r].pages + 1)
    /\ UNCHANGED <<PRIV, now, airtable, observe, upstreamVer, refreshVer>>
    /\ UNCHANGED render

\* a Divisions getter that keeps the pages it read before the failure
FetchFail_KeepPages(r, message) ==
    /\ req[r].pc = "fetching"
    /\ LET t == req[r].table
       IN  IF t = DIVISIONS_TABLE
           THEN /\ StoreCache(t, Loaded(req[r].map))
                /\ Stored(t)
                /\ last' = Respond(t, FALSE, req[r].map, req[r].pages)
           ELSE /\ UNCHANGED <<cacheVars, loadedAt>>
                /\ last' = RespondError(t, message, req[r].pages)
    /\ req' = [req EXCEPT ![r] = Idle]
    /\ UNCHANGED <<PRIV, now, airtable, observe, upstreamVer, refreshVer>>
    /\ UNCHANGED render

\* getters that start their loop again when a page fetch fails
FetchFail_Retry(r, message) ==
    /\ req[r].pc = "fetching"
    /\ req' = [req EXCEPT ![r].map = EmptyMap, ![r].offset = NoOffset, ![r].pages = 0]
    /\ UNCHANGED <<cacheVars, loadedAt, last>>
    /\ UNCHANGED <<PRIV, now, airtable, observe, upstreamVer, refreshVer>>
    /\ UNCHANGED render

\* a Divisions getter that lets the error through like the other three
FetchFail_Rethrow(r, message) ==
    /\ req[r].pc = "fetching"
    /\ last' = RespondError(req[r].table, message, req[r].pages)
    /\ req' = [req EXCEPT ![r] = Idle]
    /\ UNCHANGED <<cacheVars, loadedAt>>
    /\ UNCHANGED <<PRIV, now, airtable, observe, upstreamVer, refreshVer>>
    /\ UNCHANGED render

\* getters that all note the time of a failed load as they note a load
FetchFail_Timestamped(r, message) ==
    /\ req[r].pc = "fetching"
    /\ LET t == req[r].table
       IN  IF t = DIVISIONS_TABLE
           THEN /\ StoreCache(t, Loaded(EmptyMap))
                /\ Stored(t)
                /\ last' = Respond(t, FALSE, EmptyMap, req[r].pages)
           ELSE /\ StoreCache(t, CacheOf(t))
                /\ UNCHANGED loadedAt
                /\ last' = RespondError(t, message, req[r].pages)
    /\ req' = [req EXCEPT ![r] = Idle]
    /\ UNCHANGED <<PRIV, now, airtable, observe, upstreamVer, refreshVer>>
    /\ UNCHANGED render

\* A page fetch fails: the Divisions getter stores and returns an empty map,
\* the other getters rethrow and the handler's catch answers 500.
FetchFail(r, message) ==
    /\ req[r].pc = "fetching"
    /\ LET t == req[r].table
       IN  IF t = DIVISIONS_TABLE
           THEN /\ StoreCache(t, Loaded(EmptyMap))
                /\ Stored(t)
                /\ last' = Respond(t, FALSE, EmptyMap, req[r].pages)
           ELSE /\ UNCHANGED <<cacheVars, loadedAt>>
                /\ last' = RespondError(t, message, req[r].pages)
    /\ req' = [req EXCEPT ![r] = Idle]
    /\ UNCHANGED <<PRIV, now, airtable, observe, upstreamVer, refreshVer>>
    /\ UNCHANGED render

\* res.status(403).json(...) of requireApiKey
Forbidden(op) ==
    [ NoResponse EXCEPT !.op = op, !.status = 403,
                        !.error = << "Forbidden: invalid API key" >> ]

\* POST /cache/refresh behind requireApiKey
CacheRefresh(header) ==
    /\ IF KeyAccepted(header)
       THEN /\ ClearCaches
            /\ refreshVer' = IF observe THEN { upstreamVer } ELSE refreshVer
            /\ loadedAt' = [t \in Tables |-> 0]
            /\ last' = [ NoResponse EXCEPT !.op = "refresh", !.status = 200 ]
       ELSE /\ UNCHANGED <<cacheVars, refreshVer, loadedAt>>
            /\ last' = Forbidden("refresh")
    /\ UNCHANGED <<PRIV, now, airtable, req, observe, upstreamVer>>
    /\ UNCHANGED render

\* POST /cache/refresh-content-hubs behind requireApiKey
CacheRefreshContentHubs(header) ==
    /\ IF KeyAccepted(header)
       THEN /\ contentHubsCache' = Null
            /\ UNCHANGED <<categoryMapCache, commentMapCache, divisionsCache, cacheLastLoaded>>
            /\ last' = [ NoResponse EXCEPT !.op = "refresh-content-hubs", !.status = 200 ]
       ELSE /\ UNCHANGED cacheVars
            /\ last' = Forbidden("refresh-content-hubs")
    /\ UNCHANGED <<PRIV, now, airtable, req, history>>
    /\ UNCHANGED render

\* time passes
Tick ==
    /\ now < CACHE_TTL_MS + MaxTicks
    /\ now' = now + 1
    /\ UNCHANGED <<cacheVars, PRIV, airtable, req, last, history>>
    /\ UNCHANGED render

\* the owner of the backing store removes, edits or adds a record
UpstreamChange(t) ==
    /\ upstreamVer < MaxUpstreamChanges
    /\ \/ \E i \in DOMAIN airtable[t] :
            /\ airtable[t][i] # Removed
            /\ airtable' = [airtable EXCEPT ![t][i] = Removed]
       \/ \E i \in DOMAIN airtable[t], rec \in Pool[t] :
            /\ airtable[t][i] # Removed
            /\ airtable[t][i].fields # rec.fields
            /\ airtable' = [airtable EXCEPT ![t][i].fields = rec.fields]
       \/ \E rec \in Pool[t] :
            /\ \A i \in DOMAIN airtable[t] : airtable[t][i].id # rec.id
            /\ airtable' = [airtable EXCEPT ![t] = Append(@, rec)]
    /\ upstreamVer' = upstreamVer + 1
    /\ UNCHANGED <<cacheVars, PRIV, now, req, last, observe, refreshVer, loadedAt>>
    /\ UNCHANGED render

\* the state after construction (src/index.js:26-30), the process started
\* long after the epoch
InitCache ==
    /\ categoryMapCache = Null
    /\ contentHubsCache = Null
    /\ commentMapCache = Null
    /\ divisionsCache = Null
    /\ cacheLastLoaded = 0
    /\ now = CACHE_TTL_MS
    /\ req = [r \in Reqs |-> Idle]
    /\ last = NoResponse
    /\ upstreamVer = 0
    /\ refreshVer = NoRefresh
    /\ loadedAt = [t \in Tables |-> 0]
    /\ mainRecord = NoRecord
    /\ metadataRecord = << >>
    /\ out = NoOut

(* The four getters under any traffic, the key configured, the backing     *)
(* store unchanged.                                                        *)
Init ==
    /\ InitCache
    /\ observe = FALSE
    /\ PRIV = "secret"
    /\ airtable = InitialTables

Next ==
    \/ \E t \in Tables : CallHit(t)
    \/ \E r \in Reqs, t \in Tables : CallMiss(r, t)
    \/ \E r \in Reqs : FetchPage(r)
    \/ \E r \in Reqs, message \in UpstreamErrors : FetchFail(r, message)
    \/ \E header \in Headers : CacheRefresh(header)
    \/ \E header \in Headers : CacheRefreshContentHubs(header)
    \/ Tick

Spec == Init /\ [][Next]_vars

(* GET /countries, GET /contenthubs/:country and POST /cache/refresh while  *)
(* the two tables change, the key configured or not; with history and one  *)
(* load in flight at a time.                                               *)
InitRefresh ==
    /\ InitCache
    /\ observe = TRUE
    /\ PRIV \in { Undefined, "secret" }
    /\ airtable = InitialTables

\* the sub-caches GET /countries and GET /contenthubs/:country read
Watched == { CATS, CONTENT_HUBS_TABLE }

NextRefresh ==
    \/ \E t \in Watched : CallHit(t)
    \/ \E t \in Watched : CallMiss(FirstReq, t)
    \/ \E r \in Reqs : FetchPage(r)
    \/ \E r \in Reqs, message \in UpstreamErrors : FetchFail(r, message)
    \/ \E header \in Headers : CacheRefresh(header)
    \/ Tick
    \/ \E t \in Watched : UpstreamChange(t)

SpecRefresh == InitRefresh /\ [][NextRefresh]_vars

-----------------------------------------------------------------------------
(* JavaScript strings *)

\* a || b
Or(a, b) == IF Truthy(a) THEN a ELSE b

CharAt(s, i) == SubSeq(s, i, i)

\* the places of s that hold the character c
Places(s, c) == { i \in 1..Len(s) : CharAt(s, i) = c }

Least(S) == CHOOSE x \in S : \A y \in S : x <= y

Greatest(S) == CHOOSE x \in S : \A y \in S : y <= x

WhiteSpace == { " ", "\t", "\n", "\r" }

\* s.trim()
Trim(s) ==
    LET kept == { i \in 1..Len(s) : CharAt(s, i) \notin WhiteSpace }
    IN  IF kept = {} THEN "" ELSE SubSeq(s, Least(kept), Greatest(kept))

\* s.split(sep), sep one character
RECURSIVE Split(_, _)
Split(s, sep) ==
    IF Places(s, sep) = {} THEN << s >>
    ELSE LET i == Least(Places(s, sep))
         IN  << SubSeq(s, 1, i - 1) >> \o Split(SubSeq(s, i + 1, Len(s)), sep)

\* the values a cell of a parsed row takes: a string, a whole number, a
\* number m / 10^k with k > 0 and m not a multiple of ten, or NaN
JsString(s) == [string |-> s]
JsNumber(n) == [number |-> n]
JsDecimal(m, k) == [number |-> m, scale |-> k]
NaN == [nan |-> TRUE]

Digits == { "0", "1", "2", "3", "4", "5", "6", "7", "8", "9" }

DigitValue(c) == CHOOSE n \in 0..9 : CharAt("0123456789", n + 1) = c

RECURSIVE DigitsValue(_)
DigitsValue(v) ==
    IF v = "" THEN 0
    ELSE 10 * DigitsValue(SubSeq(v, 1, Len(v) - 1)) + DigitValue(CharAt(v, Len(v)))

\* the number m / 10^k
RECURSIVE Decimal(_, _)
Decimal(m, k) ==
    IF k = 0 THEN JsNumber(m)
    ELSE IF m % 10 = 0 THEN Decimal(m \div 10, k - 1)
    ELSE JsDecimal(m, k)

\* isNaN(v) of a trimmed cell made of digits, points, letters, slashes and
\* spaces: Number("") is 0, digits with at most one point among them are a
\* number, anything else is NaN
isNaN(v) ==
    ~ \/ v = ""
      \/ /\ \A i \in 1..Len(v) : CharAt(v, i) \in Digits \cup { "." }
         /\ Cardinality(Places(v, ".")) <= 1
         /\ \E i \in 1..Len(v) : CharAt(v, i) \in Digits

\* parseFloat(v) of a cell isNaN lets through
parseFloat(v) ==
    IF v = "" THEN NaN
    ELSE LET point == IF Places(v, ".") = {} THEN Len(v) + 1 ELSE Least(Places(v, "."))
             whole == SubSeq(v, 1, point - 1)
             fraction == SubSeq(v, point + 1, Len(v))
         IN  Decimal(DigitsValue(whole \o fraction), Len(fraction))

-----------------------------------------------------------------------------
(* The table parser of GET /data/:numericId *)

\* a data line that is longer than the header by a value is kept as well
ArityMatches_AtLeast(vals, headNames) == Len(vals) >= Len(headNames)

\* vals.length === headNames.length
ArityMatches(vals, headNames) == Len(vals) = Len(headNames)

\* line.split(";").map(s => s.trim())
Cells(line) == LET parts == Split(line, ";") IN [i \in DOMAIN parts |-> Trim(parts[i])]

\* headNames.forEach((h, i) => row[h === "Year" ? "year" : h] = ...)
RECURSIVE FillRow(_, _, _, _)
FillRow(row, headNames, vals, i) ==
    IF i > Len(headNames) THEN row
    ELSE LET h == headNames[i]
             v == vals[i]
         IN  FillRow(MapSet(row, IF h = "Year" THEN "year" ELSE h,
                            IF isNaN(v) THEN JsString(v) ELSE parseFloat(v)),
                     headNames, vals, i + 1)

\* the data array built from the header line and f.Data
ParseTable(headers, body) ==
    IF Truthy(body) /\ Truthy(headers)
    THEN LET headNames == Cells(headers)
             lines == Split(body, "\n")
             kept == SelectSeq(lines, LAMBDA line : ArityMatches(Cells(line), headNames))
         IN  [k \in DOMAIN kept |-> FillRow(EmptyMap, headNames, Cells(kept[k]), 1)]
    ELSE << >>

-----------------------------------------------------------------------------
(* Localisation of a main-table record *)

LANGUAGES ==
    { "FR", "CZ", "SK", "IT", "CN", "JP", "SI", "LT", "LV", "FI",
      "UA", "PT", "VN", "DE", "NL", "TR", "EE", "RS", "HR", "ES",
      "PL", "HU", "GR", "RO", "BG", "EN" }

\* the values of the lang query parameter the model sends (Undefined: none)
LangParams == { Undefined, "EN", "PL", "XX", "xx" }

\* s.toUpperCase(), s.toLowerCase() of the strings the model sends and stores
ToUpperCase(s) == IF s = "xx" THEN "XX" ELSE s

ToLowerCase(s) ==
    CASE s = "Poland" -> "poland" [] s = "Germany" -> "germany"
      [] s = "Economy" -> "economy" [] s = "AI" -> "ai"
      [] s = "Artificial Intelligence" -> "artificial intelligence"
      [] s = " ECONOMY" -> " economy" [] s = "ECONOMY" -> "economy"
      [] s = "Economy " -> "economy "
      [] s = " Poland" -> " poland" [] s = "POLAND" -> "poland"
      [] s = "Sport" -> "sport" [] OTHER -> s

\* (req.query.lang || "EN").toUpperCase()
Lang(q) == ToUpperCase(Or(q, "EN"))

\* the first id of a link field, when the field is a non-empty array
LinkedId(f, key) == IF key \in DOMAIN f /\ Len(f[key]) > 0 THEN f[key][1] ELSE Undefined

\* meta.title of the detail handlers. The text fields of a main-table record
\* are strings: the Array.isArray branches, which serve the lookup fields of
\* Divisions records, are not taken.
DetailTitle(f, lang) ==
    Or(Or(Or(Get(f, "Title" \o lang), Get(f, "Title")), Get(f, "TitleEN")), "")

\* meta.title of an item of the list handlers
ItemTitle(f, lang) == Or(Get(f, "Title" \o lang), Get(f, "Title"))

\* f[descKey] || f.DescriptionEN || ""
Description(f, lang) ==
    Or(Or(Get(f, "Description" \o lang), Get(f, "DescriptionEN")), "")

\* meta.category of the detail handlers: left undefined without a category
DetailCategory(f, lang, catMap) ==
    LET id == LinkedId(f, "CategorySelect")
    IN  IF id # Undefined /\ MapHas(catMap, id)
        THEN LET catFields == MapGet(catMap, id)
                 categorySecondaryKey ==
                     IF lang = "EN" THEN "SecondaryEN" ELSE "Secondary" \o lang
             IN  Or(Or(Get(catFields, categorySecondaryKey),
                       Get(catFields, "SecondaryEN")), JsNull)
        ELSE Undefined

\* meta.summary: the AI comment of the linked Comment record, when truthy
Summary(f, lang, allComments) ==
    LET id == LinkedId(f, "Comment")
        aiCommentValue ==
            IF id # Undefined /\ MapHas(allComments, id)
            THEN Or(Get(MapGet(allComments, id), "AIComment" \o lang),
                    Get(MapGet(allComments, id), "AICommentEN"))
            ELSE JsNull
    IN  IF Truthy(aiCommentValue) THEN aiCommentValue ELSE Undefined

\* const v = metadataFields[`${prefix}${lang}`] || metadataFields[enKey];
\* if (v) meta.x = v
OptionalMeta(metadataFields, prefix, lang, enKey) ==
    LET v == Or(Get(metadataFields, prefix \o lang), Get(metadataFields, enKey))
    IN  IF Truthy(v) THEN v ELSE Undefined

\* meta.sourceName and meta.unit of GET /data/:numericId
DetailSourceName(f, metadataFields, lang) ==
    Or(Or(Or(Get(metadataFields, "Source Name" \o lang),
             Get(metadataFields, "Source NameEN")), Get(f, "sourceName")), "")

DetailUnit(f, metadataFields, lang) ==
    Or(Or(Or(Or(Or(Get(metadataFields, "Unit" \o lang), Get(metadataFields, "UnitEN")),
                Get(f, "Unit" \o lang)), Get(f, "UnitEN")), Get(f, "unit")), "")

\* meta.sourceName and meta.unit of GET /data/:numericId/meta
MetaSourceName(f, metadataFields, lang) ==
    Or(Or(Or(Or(Get(metadataFields, "Source Name" \o lang),
                Get(metadataFields, "Source NameEN")),
             Get(metadataFields, "Source Name")), Get(f, "sourceName")), "")

MetaUnit(f, metadataFields, lang) ==
    Or(Or(Or(Or(Or(Or(Get(metadataFields, "Unit" \o lang), Get(metadataFields, "UnitEN")),
                   Get(metadataFields, "Unit")),
                Get(f, "Unit" \o lang)), Get(f, "UnitEN")), Get(f, "unit")), "")

\* contentHubValue.join(', '), when the field is a non-empty array
RECURSIVE Join(_)
Join(arr) ==
    IF Len(arr) = 1 THEN arr[1] ELSE arr[1] \o ", " \o Join(Tail(arr))

ContentHub(f) ==
    IF "Content hub" \in DOMAIN f /\ Len(f["Content hub"]) > 0
    THEN Join(f["Content hub"]) ELSE Undefined

\* the translations object of GET /data/:numericId
Translations(f, metadataFields) ==
    LET ofRecord == { k \in { prefix \o l : prefix \in { "Title", "Description", "Data", "AIComment" },
                                            l \in LANGUAGES } : Truthy(Get(f, k)) }
        ofMetadata == { k \in { prefix \o l : prefix \in { "Definitions", "Source Name", "ResearchName",
                                                          "ResearchPurpose", "Unit" },
                                              l \in LANGUAGES } : Truthy(Get(metadataFields, k)) }
    IN  [k \in ofRecord \cup ofMetadata |->
            IF k \in ofMetadata THEN metadataFields[k] ELSE f[k]]

\* the metadata the detail handlers fetch: {} without a Metadata link
MetadataFields(f) ==
    IF LinkedId(f, "Metadata") # Undefined THEN metadataRecord ELSE << >>

-----------------------------------------------------------------------------
(* The record handlers, for a main-table id, the caches they read fresh *)

\* function getCountryNameForFiltering(countryParam)
getCountryNameForFiltering(countryParam) ==
    CASE ToLowerCase(countryParam) = "eu" -> "European Union"
      [] ToLowerCase(countryParam) = "poland" -> "Poland"
      [] OTHER -> IF countryParam = "germany" THEN "Germany" ELSE countryParam

\* the meta object of GET /data/:numericId
DetailMeta(f, metadataFields, lang, catMap, allComments) ==
    [ title |-> DetailTitle(f, lang),
      description |-> Description(f, lang),
      updateFrequency |-> Or(Get(f, "UpdateFrequency"), ""),
      lastUpdate |-> Or(Get(f, "UpdatedThere"), ""),
      nextUpdateTime |-> Or(Get(f, "NextUpdateTime"), ""),
      category |-> DetailCategory(f, lang, catMap),
      contentHub |-> ContentHub(f),
      summary |-> Summary(f, lang, allComments),
      sourceName |-> DetailSourceName(f, metadataFields, lang),
      unit |-> DetailUnit(f, metadataFields, lang),
      researchName |-> OptionalMeta(metadataFields, "ResearchName", lang, "ResearchNameEN"),
      researchPurpose |-> OptionalMeta(metadataFields, "ResearchPurpose", lang, "ResearchPurposeEN"),
      definitions |-> OptionalMeta(metadataFields, "Definitions", lang, "DefinitionsEN"),
      methodology |-> OptionalMeta(metadataFields, "Methodology", lang, "MethodolologyEN") ]

\* the body GET /data/:numericId answers for language parameter q
DataResponse(q) ==
    IF mainRecord = NoRecord
    THEN [ NoOut EXCEPT !.op = "GET /data/:numericId", !.q = q, !.status = 404,
                        !.error = "No data for ID" ]
    ELSE LET f == mainRecord.fields
             lang == Lang(q)
         IN  [ NoOut EXCEPT
                 !.op = "GET /data/:numericId", !.q = q, !.status = 200,
                 !.meta = DetailMeta(f, MetadataFields(f), lang,
                                     categoryMapCache.map, commentMapCache.map),
                 !.data = ParseTable(Or(Get(f, "Data" \o lang), Get(f, "DataEN")),
                                     Get(f, "Data")),
                 !.translations = Translations(f, MetadataFields(f)) ]

GetData(q) ==
    /\ ServedFromCache(CATS) /\ ServedFromCache(COMMENT_TABLE)
    /\ out' = DataResponse(q)
    /\ UNCHANGED <<cacheVars, PRIV, now, airtable, req, last, history,
                   mainRecord, metadataRecord>>

\* the body GET /data/:numericId/meta answers for language parameter q
DataMetaResponse(q) ==
    IF mainRecord = NoRecord
    THEN [ NoOut EXCEPT !.op = "GET /data/:numericId/meta", !.q = q, !.status = 404,
                        !.error = "No data for ID" ]
    ELSE LET f == mainRecord.fields
             lang == Lang(q)
         IN  [ NoOut EXCEPT
                 !.op = "GET /data/:numericId/meta", !.q = q, !.status = 200,
                 !.meta =
                    [ title |-> DetailTitle(f, lang),
                      description |-> Description(f, lang),
                      updateFrequency |-> Or(Get(f, "UpdateFrequency"), ""),
                      lastUpdate |-> Or(Get(f, "UpdatedThere"), ""),
                      nextUpdateTime |-> Or(Get(f, "NextUpdateTime"), ""),
                      category |-> DetailCategory(f, lang, categoryMapCache.map),
                      contentHub |-> ContentHub(f),
                      summary |-> Summary(f, lang, commentMapCache.map),
                      sourceName |-> MetaSourceName(f, MetadataFields(f), lang),
                      unit |-> MetaUnit(f, MetadataFields(f), lang) ] ]

GetDataMeta(q) ==
    /\ ServedFromCache(CATS) /\ ServedFromCache(COMMENT_TABLE)
    /\ out' = DataMetaResponse(q)
    /\ UNCHANGED <<cacheVars, PRIV, now, airtable, req, last, history,
                   mainRecord, metadataRecord>>

\* process.env.AIRTABLE_TABLE_NAME
MAIN == "Poland"

InSeq(x, s) == \E i \in DOMAIN s : s[i] = x

\* the main-table records a list handler fetches: the records of the main
\* table when the backing store is modelled with one, else the one record
AllPoland ==
    IF MAIN \in DOMAIN airtable THEN Live(airtable[MAIN])
    ELSE IF mainRecord = NoRecord THEN << >> ELSE << mainRecord >>

\* new Date(v).getTime() of a cell of UpdatedThere, in days: a cell of the
\* form YYYY-MM-DD with a month of 01..12 and a day of 01..31 is a date, any
\* other cell the model stores, the empty string included, is Invalid Date
DateOf(v) ==
    IF /\ Len(v) = 10
       /\ Places(v, "-") = { 5, 8 }
       /\ \A i \in (1..10) \ { 5, 8 } : CharAt(v, i) \in Digits
       /\ DigitsValue(SubSeq(v, 6, 7)) \in 1..12
       /\ DigitsValue(SubSeq(v, 9, 10)) \in 1..31
    THEN JsNumber(372 * DigitsValue(SubSeq(v, 1, 4)) + 31 * DigitsValue(SubSeq(v, 6, 7))
                     + DigitsValue(SubSeq(v, 9, 10)))
    ELSE NaN

\* (a, b) => new Date(b.meta.lastUpdate) - new Date(a.meta.lastUpdate), as
\* Array.prototype.sort reads it: a NaN result counts as +0
ByLastUpdate(a, b) ==
    LET x == DateOf(b.meta.lastUpdate)
        y == DateOf(a.meta.lastUpdate)
    IN  IF x = NaN \/ y = NaN THEN 0 ELSE x.number - y.number

\* items.sort(comparator) as the runtime of the server does it for a short
\* array: the run the array starts with is found (and reversed when it
\* descends), then every later element is placed by binary insertion
RECURSIVE RunEnd(_, _, _)
RunEnd(arr, isDescending, idx) ==
    IF idx > Len(arr) THEN idx - 1
    ELSE LET order == ByLastUpdate(arr[idx], arr[idx - 1])
         IN  IF (isDescending /\ order >= 0) \/ (~isDescending /\ order < 0)
             THEN idx - 1
             ELSE RunEnd(arr, isDescending, idx + 1)

Reverse(arr) == [i \in DOMAIN arr |-> arr[Len(arr) + 1 - i]]

RECURSIVE InsertionPoint(_, _, _, _)
InsertionPoint(arr, pivot, left, right) ==
    IF left >= right THEN left
    ELSE LET mid == left + ((right - left) \div 2)
         IN  IF ByLastUpdate(pivot, arr[mid]) < 0
             THEN InsertionPoint(arr, pivot, left, mid)
             ELSE InsertionPoint(arr, pivot, mid + 1, right)

RECURSIVE BinaryInsertionSort(_, _)
BinaryInsertionSort(arr, start) ==
    IF start > Len(arr) THEN arr
    ELSE LET left == InsertionPoint(arr, arr[start], 1, start)
         IN  BinaryInsertionSort(SubSeq(arr, 1, left - 1) \o << arr[start] >>
                                    \o SubSeq(arr, left, start - 1)
                                    \o SubSeq(arr, start + 1, Len(arr)),
                                 start + 1)

SortByLastUpdate(items) ==
    IF Len(items) < 2 THEN items
    ELSE LET isDescending == ByLastUpdate(items[2], items[1]) < 0
             runLength == RunEnd(items, isDescending, 3)
             run == IF isDescending
                    THEN Reverse(SubSeq(items, 1, runLength))
                            \o SubSeq(items, runLength + 1, Len(items))
                    ELSE items
         IN  BinaryInsertionSort(run, runLength + 1)

\* res.json({ count: items.length, items }), the main table read
ListOf(asked, items) ==
    [ asked EXCEPT !.status = 200, !.fetched = TRUE,
                   !.count = Len(items), !.items = items ]

\* function getCountryViewId(countryParam), no view id in the environment
getCountryViewId(countryParam) ==
    CASE ToLowerCase(countryParam) = "eu" -> "European Union"
      [] ToLowerCase(countryParam) = "poland" -> "Poland"
      [] OTHER -> IF countryParam = "germany" THEN "Germany" ELSE countryParam

\* async function getContentHubId(hubTitle), the Content hubs map at hand
getContentHubId(hubTitle) ==
    LET allContentHubs == contentHubsCache.map
        hits == { i \in DOMAIN allContentHubs :
                    \/ /\ Truthy(Get(allContentHubs[i].v, "TitleEN"))
                       /\ ToLowerCase(allContentHubs[i].v.TitleEN) = ToLowerCase(hubTitle)
                    \/ /\ Truthy(Get(allContentHubs[i].v, "Title"))
                       /\ ToLowerCase(allContentHubs[i].v.Title) = ToLowerCase(hubTitle) }
    IN  IF ~Truthy(hubTitle) \/ hits = {} THEN JsNull
        ELSE allContentHubs[Least(hits)].v.id

\* A cell that holds an array of strings is written as its elements between
\* brackets, separated by commas; Array.isArray tells such a cell from a
\* plain string.
IsArray(v) == v # Undefined /\ Len(v) >= 2 /\ CharAt(v, 1) = "[" /\ CharAt(v, Len(v)) = "]"

\* Array.isArray(v) ? v[0] : v
FirstIfArray(v) ==
    IF IsArray(v) THEN Split(SubSeq(v, 2, Len(v) - 1), ",")[1] ELSE v

\* async function getCategoryIdByName(categoryName, countryName), every
\* record matching either of the two names taken for a match
getCategoryIdByName_Either(categoryName, countryName) ==
    LET categoriesMap == categoryMapCache.map
        hits == { i \in DOMAIN categoriesMap :
                    \/ Trim(ToLowerCase(Or(FirstIfArray(Get(categoriesMap[i].v, "SecondaryEN")), "")))
                          = Trim(ToLowerCase(categoryName))
                    \/ Trim(ToLowerCase(Or(FirstIfArray(Get(categoriesMap[i].v, "TitleEN")), "")))
                          = Trim(ToLowerCase(countryName)) }
    IN  IF hits = {} THEN JsNull ELSE categoriesMap[Least(hits)].k

\* async function getCategoryIdByName(categoryName, countryName), the
\* Categories map at hand
getCategoryIdByName(categoryName, countryName) ==
    LET categoriesMap == categoryMapCache.map
        hits == { i \in DOMAIN categoriesMap :
                    /\ Trim(ToLowerCase(Or(FirstIfArray(Get(categoriesMap[i].v, "SecondaryEN")), "")))
                          = Trim(ToLowerCase(categoryName))
                    /\ Trim(ToLowerCase(Or(FirstIfArray(Get(categoriesMap[i].v, "TitleEN")), "")))
                          = Trim(ToLowerCase(countryName)) }
    IN  IF hits = {} THEN JsNull ELSE categoriesMap[Least(hits)].k

\* the condition filterParts gets for a resolved category: its text, and the
\* link field and record id the backing store compares
CategoryCondition(categoryId) ==
    [ text |-> "{CategorySelect} = \"" \o categoryId \o "\"",
      field |-> "CategorySelect", id |-> categoryId ]

\* the condition filterParts gets for a resolved content hub
HubCondition(hubId) ==
    [ text |-> "FIND(\"" \o hubId \o "\", ARRAYJOIN({Content hubs in build}))",
      field |-> "Content hubs in build", id |-> hubId ]

RECURSIVE JoinWith(_, _)
JoinWith(arr, sep) ==
    IF arr = << >> THEN ""
    ELSE IF Len(arr) = 1 THEN arr[1]
    ELSE arr[1] \o sep \o JoinWith(Tail(arr), sep)

\* a formula that passes a record when any part passes it
FilterFormula_Any(filterParts) ==
    IF Len(filterParts) > 0
    THEN "OR(" \o JoinWith([i \in DOMAIN filterParts |-> filterParts[i].text], ",") \o ")"
    ELSE ""

\* filterParts.length > 0 ? `AND(${filterParts.join(',')})` : ''
FilterFormula(filterParts) ==
    IF Len(filterParts) > 0
    THEN "AND(" \o JoinWith([i \in DOMAIN filterParts |-> filterParts[i].text], ",") \o ")"
    ELSE ""

\* the records the backing store hands out for a view and the conditions of
\* a formula: the main table is its own view and the view of Poland, any
\* other view of the model is empty; a condition passes the records whose
\* link field holds the id
FetchMain(viewId, filterParts) ==
    SelectSeq(AllPoland, LAMBDA r :
        /\ viewId \in { MAIN, "Poland" }
        /\ \A i \in DOMAIN filterParts :
              /\ filterParts[i].field \in DOMAIN r.fields
              /\ InSeq(filterParts[i].id, r.fields[filterParts[i].field]))

\* an item of GET /datasets
DatasetsItem(r, lang, catMap) ==
    LET f == r.fields
        id == LinkedId(f, "CategorySelect")
        known == id # Undefined /\ MapHas(catMap, id)
        key == IF lang = "EN" THEN "Secondary" ELSE "Secondary" \o lang
    IN  [ id |-> Or(Get(f, "DataID"), r.id),
          meta |-> [ title |-> ItemTitle(f, lang),
                     description |-> Description(f, lang),
                     category |-> IF known
                                  THEN Or(Or(Get(MapGet(catMap, id), key),
                                             Get(MapGet(catMap, id), "Secondary")), JsNull)
                                  ELSE JsNull,
                     country |-> IF known
                                 THEN Or(Get(MapGet(catMap, id), "TitleEN"), JsNull)
                                 ELSE JsNull,
                     lastUpdate |-> Or(Get(f, "UpdatedThere"), ""),
                     nextUpdateTime |-> Or(Get(f, "NextUpdateTime"), "") ] ]

\* the body GET /datasets answers
DatasetsResponse(country, category, contentHub, q) ==
    LET asked == [ NoOut EXCEPT !.op = "GET /datasets", !.q = q, !.country = country,
                                !.category = category, !.contentHub = contentHub ]
        viewId == IF Truthy(country) THEN getCountryViewId(country) ELSE MAIN
        countryForCatLookup ==
            IF Truthy(country) THEN getCountryNameForFiltering(country) ELSE "Poland"
        categoryId == IF Truthy(category)
                      THEN getCategoryIdByName(category, countryForCatLookup) ELSE JsNull
        hubId == IF Truthy(contentHub) THEN getContentHubId(contentHub) ELSE JsNull
        filterParts ==
            (IF Truthy(category) THEN << CategoryCondition(categoryId) >> ELSE << >>)
                \o (IF Truthy(contentHub) THEN << HubCondition(hubId) >> ELSE << >>)
        allRecords == FetchMain(viewId, filterParts)
        valid == SelectSeq(allRecords, LAMBDA r :
                     /\ Truthy(Get(r.fields, "Title"))
                     /\ Truthy(Trim(r.fields.Title)))
    IN  IF Truthy(category) /\ ~Truthy(categoryId)
        THEN [ asked EXCEPT !.status = 404,
                 !.error = "Category \"" \o category \o "\" not found for country \""
                              \o countryForCatLookup \o "\"." ]
        ELSE IF Truthy(contentHub) /\ ~Truthy(hubId)
        THEN [ asked EXCEPT !.status = 404,
                 !.error = "Content hub \"" \o contentHub \o "\" not found." ]
        ELSE IF allRecords = << >>
        THEN [ asked EXCEPT !.status = 404, !.fetched = TRUE,
                 !.filterFormula = FilterFormula(filterParts),
                 !.error = "No records found for the given criteria in /datasets." ]
        ELSE [ ListOf(asked,
                    SortByLastUpdate([i \in DOMAIN valid |->
                        DatasetsItem(valid[i], Lang(q), categoryMapCache.map)]))
                 EXCEPT !.filterFormula = FilterFormula(filterParts) ]

GetDatasets(country, category, contentHub, q) ==
    /\ ServedFromCache(CATS)
    /\ Truthy(contentHub) /\ (Truthy(category) => Truthy(getCategoryIdByName(category,
            IF Truthy(country) THEN getCountryNameForFiltering(country) ELSE "Poland")))
          => ServedFromCache(CONTENT_HUBS_TABLE)
    /\ out' = DatasetsResponse(country, category, contentHub, q)
    /\ UNCHANGED <<cacheVars, PRIV, now, airtable, req, last, history,
                   mainRecord, metadataRecord>>

\* the Categories records of the country, in the order of the map
MatchingCategories(allCategories, countryParam) ==
    SelectSeq(allCategories, LAMBDA e :
        /\ Truthy(Get(e.v, "TitleEN"))
        /\ Trim(ToLowerCase(e.v.TitleEN))
              = Trim(ToLowerCase(getCountryNameForFiltering(countryParam))))

\* ids.push(...fields[link]) over the matching categories
RECURSIVE LinkedIds(_, _)
LinkedIds(matching, link) ==
    IF matching = << >> THEN << >>
    ELSE (IF link \in DOMAIN Head(matching).v THEN Head(matching).v[link] ELSE << >>)
            \o LinkedIds(Tail(matching), link)

\* an item made of a Divisions record: its description and dates come from
\* the main-table record its Main_Data field links to, when there is one
DivisionItem(f, lang) ==
    LET linked == SelectSeq(AllPoland, LAMBDA r : r.id = LinkedId(f, "Main_Data"))
        own == [ description |-> Description(f, lang),
                 lastUpdate |-> Or(Get(f, "UpdatedThere"), ""),
                 nextUpdateTime |-> Or(Get(f, "NextUpdateTime"), "") ]
        polandFields == linked[1].fields
    IN  [ id |-> "d" \o Or(Get(f, "DataID"), Get(f, "id")),
          meta |-> [ title |-> ItemTitle(f, lang),
                     description |->
                        IF linked = << >> THEN own.description
                        ELSE Or(Or(Get(polandFields, "Description" \o lang),
                                   Get(polandFields, "DescriptionEN")), own.description),
                     lastUpdate |->
                        IF linked = << >> THEN own.lastUpdate
                        ELSE Or(Get(polandFields, "UpdatedThere"), own.lastUpdate),
                     nextUpdateTime |->
                        IF linked = << >> THEN own.nextUpdateTime
                        ELSE Or(Get(polandFields, "NextUpdateTime"), own.nextUpdateTime) ] ]

\* an item made of a main-table record
PolandItem(r, lang) ==
    [ id |-> Or(Get(r.fields, "DataID"), r.id),
      meta |-> [ title |-> ItemTitle(r.fields, lang),
                 description |-> Description(r.fields, lang),
                 lastUpdate |-> Or(Get(r.fields, "UpdatedThere"), ""),
                 nextUpdateTime |-> Or(Get(r.fields, "NextUpdateTime"), "") ] ]

\* divisionIds.map(id => allDivisions[id]).filter(Boolean)
DivisionRecords(divisionIds, allDivisions) ==
    LET known == SelectSeq(divisionIds, LAMBDA id : MapHas(allDivisions, id))
    IN  [i \in DOMAIN known |-> MapGet(allDivisions, known[i])]

\* the body GET /dataset/:country answers
DatasetCountryResponse(countryParam, contentHub, q) ==
    LET asked == [ NoOut EXCEPT !.op = "GET /dataset/:country", !.q = q,
                                !.country = countryParam, !.contentHub = contentHub ]
        matching == MatchingCategories(categoryMapCache.map, ToLowerCase(countryParam))
        divisionIds == LinkedIds(matching, "Divisions")
        polandIds == LinkedIds(matching, "Poland")
        divisionRecords == DivisionRecords(divisionIds, divisionsCache.map)
        polandRecords == SelectSeq(AllPoland, LAMBDA r : InSeq(r.id, polandIds))
    IN  IF matching = << >>
        THEN [ asked EXCEPT !.status = 404,
                            !.error = "No category found for country" ]
        ELSE ListOf(asked,
                SortByLastUpdate([i \in DOMAIN divisionRecords |->
                                     DivisionItem(divisionRecords[i], Lang(q))]
                                 \o [i \in DOMAIN polandRecords |->
                                        PolandItem(polandRecords[i], Lang(q))]))

GetDatasetCountry(countryParam, contentHub, q) ==
    /\ ServedFromCache(CATS) /\ ServedFromCache(DIVISIONS_TABLE)
    /\ out' = DatasetCountryResponse(countryParam, contentHub, q)
    /\ UNCHANGED <<cacheVars, PRIV, now, airtable, req, last, history,
                   mainRecord, metadataRecord>>

\* the body GET /dataset/:country/:category answers
DatasetCountryCategoryResponse(country, category, contentHub, q) ==
    LET asked == [ NoOut EXCEPT !.op = "GET /dataset/:country/:category", !.q = q,
                                !.country = country, !.category = category,
                                !.contentHub = contentHub ]
        catParam == ToLowerCase(category)
        matching == MatchingCategories(categoryMapCache.map, country)
        divisionIds == LinkedIds(matching, "Divisions")
        polandIds == LinkedIds(matching, "Poland")
        divisionRecords == DivisionRecords(divisionIds, divisionsCache.map)
        polandRecords == SelectSeq(AllPoland, LAMBDA r : InSeq(r.id, polandIds))
        filteredPolandRecords == SelectSeq(polandRecords, LAMBDA r :
            /\ Truthy(Get(r.fields, "CategoryView"))
            /\ Trim(ToLowerCase(r.fields.CategoryView)) = Trim(catParam))
        filteredDivisionRecords == SelectSeq(divisionRecords, LAMBDA f :
            LET divisionCategory == Or(Get(f, "Category"), Get(f, "CategoryView"))
            IN  Truthy(divisionCategory) =>
                    Trim(ToLowerCase(divisionCategory)) = Trim(catParam))
    IN  IF matching = << >>
        THEN [ asked EXCEPT !.status = 404,
                            !.error = "No category found for country" ]
        ELSE ListOf(asked,
                SortByLastUpdate([i \in DOMAIN filteredDivisionRecords |->
                                     DivisionItem(filteredDivisionRecords[i], Lang(q))]
                                 \o [i \in DOMAIN filteredPolandRecords |->
                                        PolandItem(filteredPolandRecords[i], Lang(q))]))

GetDatasetCountryCategory(country, category, contentHub, q) ==
    /\ ServedFromCache(CATS) /\ ServedFromCache(DIVISIONS_TABLE)
    /\ out' = DatasetCountryCategoryResponse(country, category, contentHub, q)
    /\ UNCHANGED <<cacheVars, PRIV, now, airtable, req, last, history,
                   mainRecord, metadataRecord>>

-----------------------------------------------------------------------------
(* The record handlers over the records the main table may hold *)

\* a field the record may lack
Opt(present, key, value) == IF present THEN key :> value ELSE << >>

\* the Metadata record the main-table record links to
recX1 ==
    "UnitEN" :> "%" @@ "UnitPL" :> "proc." @@ "Source NameEN" :> "Statistics Poland"
        @@ "Source Name" :> "GUS" @@ "DefinitionsEN" :> "CPI"
        @@ "MethodologyPL" :> "Badanie cen"

\* the main-table records: every text field is a non-empty string or absent,
\* as the backing store leaves an empty field out of a record
LocalRecords ==
    { [ id |-> "recP1",
        fields |-> "DataID" :> "12" @@ "CategoryView" :> "Economy"
            @@ "DescriptionEN" :> "Consumer prices" @@ "UpdatedThere" :> "2024-05-01"
            @@ "DataEN" :> "Year;Value" @@ "Data" :> "2023;11\n2024;3"
            @@ Opt(b[1], "Title", "Inflacja") @@ Opt(b[2], "TitleEN", "Inflation")
            @@ Opt(b[3], "TitlePL", "Inflacja w Polsce")
            @@ Opt(b[4], "DescriptionPL", "Ceny konsumpcyjne")
            @@ Opt(b[5], "DataPL", "Rok;Wartosc")
            @@ Opt(b[6], "CategorySelect", << "recC1" >>)
            @@ "Comment" :> << "recM1" >> @@ "Metadata" :> << "recX1" >> ] :
      b \in [1..6 -> BOOLEAN] }

\* the caches loaded a moment ago from the tables of the backing store
InitLoaded ==
    /\ categoryMapCache = Loaded(StoreRecords(CATS, EmptyMap, InitialTables[CATS]))
    /\ contentHubsCache = Null
    /\ commentMapCache = Loaded(StoreRecords(COMMENT_TABLE, EmptyMap, InitialTables[COMMENT_TABLE]))
    /\ divisionsCache = Loaded(StoreRecords(DIVISIONS_TABLE, EmptyMap, InitialTables[DIVISIONS_TABLE]))
    /\ cacheLastLoaded = CACHE_TTL_MS
    /\ now = CACHE_TTL_MS
    /\ req = [r \in Reqs |-> Idle]
    /\ last = NoResponse
    /\ observe = FALSE
    /\ upstreamVer = 0
    /\ refreshVer = NoRefresh
    /\ loadedAt = [t \in Tables |-> 0]
    /\ PRIV = "secret"
    /\ airtable = InitialTables
    /\ metadataRecord = recX1
    /\ out = NoOut

InitLocal ==
    /\ InitLoaded
    /\ mainRecord \in LocalRecords \cup { NoRecord }

CountryParams == { "poland", "Germany" }

NextLocal ==
    \/ \E q \in LangParams : GetData(q)
    \/ \E q \in LangParams : GetDataMeta(q)
    \/ \E q \in LangParams : GetDatasets(Undefined, Undefined, Undefined, q)
    \/ \E country \in CountryParams, q \in LangParams :
            GetDatasetCountry(country, Undefined, q)
    \/ \E country \in CountryParams, q \in LangParams :
            GetDatasetCountryCategory(country, "Economy", Undefined, q)

SpecLocal == InitLocal /\ [][NextLocal]_vars

-----------------------------------------------------------------------------
(* GET /data/:numericId over the table payloads a record may hold *)

\* the longest f.Data the model parses
MaxBodyLen == 5

RECURSIVE StringsUpTo(_, _)
StringsUpTo(alphabet, n) ==
    IF n = 0 THEN { "" }
    ELSE LET shorter == StringsUpTo(alphabet, n - 1)
         IN  shorter \cup { s \o c : s \in shorter, c \in alphabet }

BodyAlphabet == { "1", "2", ";", "\n", " " }

\* the header lines the model parses
HeaderLines == { "A", "A;B", " A ; B ", "Year;A", "A;A" }

\* a present field is a non-empty string
ParseRecords ==
    { [ id |-> "recP1",
        fields |-> "DataID" :> "12" @@ "Title" :> "Inflacja"
            @@ "DataEN" :> headers @@ "Data" :> body ] :
      headers \in HeaderLines, body \in StringsUpTo(BodyAlphabet, MaxBodyLen) \ { "" } }

InitParse ==
    /\ InitLoaded
    /\ mainRecord \in ParseRecords

NextParse == GetData(Undefined)

SpecParse == InitParse /\ [][NextParse]_vars

-----------------------------------------------------------------------------
(* GET /data/:numericId over the cells a one-line table payload may hold *)

\* the longest one-line f.Data the model parses
MaxCellLen == 4

CellAlphabet == { "1", "9", ".", "N", " ", ";" }

\* the cells the documentation of the parser names
CellExamples == { "13.9", "N/A", " 13.9 ;N/A" }

CellRecords ==
    { [ id |-> "recP1",
        fields |-> "DataID" :> "12" @@ "Title" :> "Inflacja"
            @@ "DataEN" :> headers @@ "Data" :> body ] :
      headers \in { "A", "A;B" },
      body \in (StringsUpTo(CellAlphabet, MaxCellLen) \ { "" }) \cup CellExamples }

InitCells ==
    /\ InitLoaded
    /\ mainRecord \in CellRecords

NextCells == \E q \in { Undefined, "EN" } : GetData(q)

SpecCells == InitCells /\ [][NextCells]_vars

-----------------------------------------------------------------------------
(* The handlers of /data/:numericId, from the path segment on *)

\* the longest path segment the model sends
MaxIdLen == 2

\* the characters of a path segment: digits, a letter, the division prefix
IdAlphabet == { "0", "1", "2", "a", "d" }

\* req.params.numericId
IdParams == StringsUpTo(IdAlphabet, MaxIdLen) \ { "" }

\* parseInt(s) of a string of digits and letters: the number its leading
\* digits write, NaN when it starts with none
parseInt(s) ==
    LET lead == { n \in 0..Len(s) : \A i \in 1..n : CharAt(s, i) \in Digits }
    IN  IF Greatest(lead) = 0 THEN NaN
        ELSE JsNumber(DigitsValue(SubSeq(s, 1, Greatest(lead))))

\* `${n}` of a whole number
RECURSIVE NumberToString(_)
NumberToString(n) ==
    IF n < 10 THEN CharAt("0123456789", n + 1)
    ELSE NumberToString(n \div 10) \o CharAt("0123456789", (n % 10) + 1)

\* idParam.startsWith('d')
StartsWithD(idParam) == Len(idParam) > 0 /\ CharAt(idParam, 1) = "d"

\* isDivision ? parseInt(idParam.substring(1)) : parseInt(idParam)
NumericId(idParam) ==
    IF StartsWithD(idParam) THEN parseInt(SubSeq(idParam, 2, Len(idParam)))
    ELSE parseInt(idParam)

\* the record filterByFormula {DataID} = numericId finds in the main table
MainRecordOfId(numericId) ==
    IF /\ mainRecord # NoRecord
       /\ Get(mainRecord.fields, "DataID") # Undefined
       /\ JsNumber(DigitsValue(mainRecord.fields.DataID)) = numericId
    THEN mainRecord ELSE NoRecord

\* the entries of allDivisions with divisionFields.DataID === numericId
DivisionsOfId(numericId) ==
    SelectSeq(divisionsCache.map, LAMBDA e :
        /\ Get(e.v, "DataID") # Undefined
        /\ JsNumber(DigitsValue(e.v.DataID)) = numericId)

InvalidId(op, q, text) ==
    [ NoOut EXCEPT !.op = op, !.q = q, !.status = 400, !.error = text ]

NotFound(op, q, text) ==
    [ NoOut EXCEPT !.op = op, !.q = q, !.status = 404, !.error = text ]

\* meta.summary of a Divisions record: its own AI comment
DivisionSummary(f, lang) ==
    LET aiCommentValue == Or(Get(f, "AIComment" \o lang), Get(f, "AICommentEN"))
    IN  IF Truthy(aiCommentValue) THEN aiCommentValue ELSE Undefined

\* what GET /data/d{n} answers for a Divisions record without a Main_Data
\* link, as the Divisions records of the model are
DivisionDataResponse(f, q) ==
    LET lang == Lang(q)
        metadataFields == MetadataFields(f)
        sourceNameValue == Or(Get(f, "sourceName"),
                              Or(Get(metadataFields, "Source Name" \o lang),
                                 Get(metadataFields, "Source NameEN")))
        unitValue == Or(Get(f, "unit"),
                        Or(Get(metadataFields, "Unit" \o lang), Get(metadataFields, "UnitEN")))
    IN  [ NoOut EXCEPT
            !.op = "GET /data/:numericId", !.q = q, !.status = 200,
            !.meta = [ DetailMeta(f, metadataFields, lang,
                                  categoryMapCache.map, commentMapCache.map) EXCEPT
                         !.summary = DivisionSummary(f, lang),
                         !.sourceName = IF Truthy(sourceNameValue) THEN sourceNameValue
                                        ELSE DetailSourceName(f, metadataFields, lang),
                         !.unit = IF Truthy(unitValue) THEN unitValue
                                  ELSE DetailUnit(f, metadataFields, lang) ],
            !.data = ParseTable(Or(Get(f, "Data" \o lang), Get(f, "DataEN")), Get(f, "Data")),
            !.translations = Translations(f, metadataFields) ]

\* what GET /data/d{n}/meta answers for such a Divisions record
DivisionMetaResponse(f, q) ==
    LET lang == Lang(q)
    IN  [ NoOut EXCEPT
            !.op = "GET /data/:numericId/meta", !.q = q, !.status = 200,
            !.meta =
               [ title |-> DetailTitle(f, lang),
                 description |-> Description(f, lang),
                 updateFrequency |-> Or(Get(f, "UpdateFrequency"), ""),
                 lastUpdate |-> Or(Get(f, "UpdatedThere"), ""),
                 nextUpdateTime |-> Or(Get(f, "NextUpdateTime"), ""),
                 category |-> DetailCategory(f, lang, categoryMapCache.map),
                 contentHub |-> ContentHub(f),
                 summary |-> DivisionSummary(f, lang),
                 sourceName |-> MetaSourceName(f, MetadataFields(f), lang),
                 unit |-> MetaUnit(f, MetadataFields(f), lang) ] ]

\* the fields getLinkedDivisions tries, in its order, for the link of a
\* Divisions record to the main table
possibleLinkingFields ==
    << "linkedto", "LinkedTo", "MainRecord", "Main", "Poland", "ParentRecord",
       "Linked To", "Main Record", "Parent Record", "Poland Record" >>

\* getLinkedDivisions(mainRecordId); a linking field of the model is an array
getLinkedDivisions(mainRecordId) ==
    SelectSeq(divisionsCache.map, LAMBDA e :
        LET present == { i \in DOMAIN possibleLinkingFields :
                            possibleLinkingFields[i] \in DOMAIN e.v }
        IN  /\ present # {}
            /\ InSeq(mainRecordId, e.v[possibleLinkingFields[Least(present)]]))

\* the comment text of the Comment record a field set links to, or null
LinkedComment(f, lang) ==
    LET id == LinkedId(f, "Comment")
    IN  IF id # Undefined /\ MapHas(commentMapCache.map, id)
        THEN Or(Or(Get(MapGet(commentMapCache.map, id), "AIComment" \o lang),
                   Get(MapGet(commentMapCache.map, id), "AICommentEN")), JsNull)
        ELSE JsNull

\* getUnifiedAIComments(mainRecord, lang)
getUnifiedAIComments(record, lang) ==
    LET own == LinkedComment(record.fields, lang)
        commented == SelectSeq(getLinkedDivisions(record.id), LAMBDA e :
                         /\ Truthy(LinkedComment(e.v, lang))
                         /\ Truthy(Trim(LinkedComment(e.v, lang))))
    IN  (IF Truthy(own) /\ Truthy(Trim(own))
         THEN << [source |-> "main", comment |-> own] >> ELSE << >>)
        \o [i \in DOMAIN commented |->
               [ source |-> "division", divisionId |-> commented[i].k,
                 comment |-> LinkedComment(commented[i].v, lang) ]]

\* getUnifiedData(mainRecord, lang)
getUnifiedData(record, lang) ==
    LET f == record.fields
        linked == getLinkedDivisions(record.id)
    IN  [ main |->
            [ id |-> Or(Get(f, "DataID"), record.id),
              title |-> Or(Or(Or(Get(f, "Title" \o lang), Get(f, "Title")),
                              Get(f, "TitleEN")), ""),
              description |-> Description(f, lang),
              data |-> Or(Or(Get(f, "Data" \o lang), Get(f, "DataEN")), ""),
              lastUpdate |-> Or(Get(f, "UpdatedThere"), ""),
              nextUpdateTime |-> Or(Get(f, "NextUpdateTime"), ""),
              updateFrequency |-> Or(Get(f, "UpdateFrequency"), "") ],
          divisions |->
            [i \in DOMAIN linked |->
               LET d == linked[i].v
               IN  [ id |-> linked[i].k,
                     title |-> Or(Or(Or(Get(d, "Title" \o lang), Get(d, "Title")),
                                     Get(d, "TitleEN")), ""),
                     description |-> Description(d, lang),
                     data |-> Or(Or(Get(d, "Data" \o lang), Get(d, "DataEN")), ""),
                     category |-> Or(Get(d, "Category"), JsNull),
                     country |-> Or(Get(d, "Country"), JsNull),
                     contentHub |-> IF "Content hub" \in DOMAIN d
                                    THEN d["Content hub"] ELSE JsNull ]] ]

InvalidDataId ==
    "Invalid ID. Please provide a valid numeric ID or 'd' + numeric ID for division records."

\* a 404 text that does not name the id
NoDataFor_Unnamed(numericId) == "No data for this ID"

NoDataFor(numericId) == "No data for ID \"" \o NumberToString(numericId.number) \o "\""

NoDivisionDataFor(numericId) ==
    "No division data for ID \"d" \o NumberToString(numericId.number) \o "\""

\* the body GET /data/:numericId answers for path segment idParam
DataByIdResponse(idParam, q) ==
    LET op == "GET /data/:numericId"
        numericId == NumericId(idParam)
    IN  IF numericId = NaN THEN InvalidId(op, q, InvalidDataId)
        ELSE IF StartsWithD(idParam)
        THEN IF DivisionsOfId(numericId) = << >>
             THEN NotFound(op, q, NoDivisionDataFor(numericId))
             ELSE DivisionDataResponse(DivisionsOfId(numericId)[1].v, q)
        ELSE IF MainRecordOfId(numericId) = NoRecord
             THEN NotFound(op, q, NoDataFor(numericId))
             ELSE DataResponse(q)

\* the body GET /data/:numericId/meta answers for path segment idParam
DataMetaByIdResponse(idParam, q) ==
    LET op == "GET /data/:numericId/meta"
        numericId == NumericId(idParam)
    IN  IF numericId = NaN THEN InvalidId(op, q, InvalidDataId)
        ELSE IF StartsWithD(idParam)
        THEN IF DivisionsOfId(numericId) = << >>
             THEN NotFound(op, q, NoDivisionDataFor(numericId))
             ELSE DivisionMetaResponse(DivisionsOfId(numericId)[1].v, q)
        ELSE IF MainRecordOfId(numericId) = NoRecord
             THEN NotFound(op, q, NoDataFor(numericId))
             ELSE DataMetaResponse(q)

\* the body GET /data/:numericId/unified answers for path segment idParam
DataUnifiedByIdResponse(idParam, q) ==
    LET op == "GET /data/:numericId/unified"
        numericId == parseInt(idParam)
    IN  IF numericId = NaN
        THEN InvalidId(op, q, "Invalid ID. Please provide a numeric ID.")
        ELSE IF MainRecordOfId(numericId) = NoRecord
        THEN NotFound(op, q, NoDataFor(numericId))
        ELSE [ NoOut EXCEPT
                 !.op = op, !.q = q, !.status = 200,
                 !.meta = [ aiComments |-> getUnifiedAIComments(mainRecord, Lang(q)) ]
                             @@ getUnifiedData(mainRecord, Lang(q)) ]

\* the response with the path segment it answers, and whether the handler
\* got as far as its try block, where the backing store is read
Sent(idParam, response) ==
    [ id |-> idParam, fetched |-> response.status # 400 ] @@ response

GetDataById(idParam, q) ==
    /\ ServedFromCache(CATS) /\ ServedFromCache(COMMENT_TABLE)
    /\ ServedFromCache(DIVISIONS_TABLE)
    /\ out' = Sent(idParam, DataByIdResponse(idParam, q))
    /\ UNCHANGED <<cacheVars, PRIV, now, airtable, req, last, history,
                   mainRecord, metadataRecord>>

GetDataMetaById(idParam, q) ==
    /\ ServedFromCache(CATS) /\ ServedFromCache(COMMENT_TABLE)
    /\ ServedFromCache(DIVISIONS_TABLE)
    /\ out' = Sent(idParam, DataMetaByIdResponse(idParam, q))
    /\ UNCHANGED <<cacheVars, PRIV, now, airtable, req, last, history,
                   mainRecord, metadataRecord>>

GetDataUnifiedById(idParam, q) ==
    /\ ServedFromCache(COMMENT_TABLE) /\ ServedFromCache(DIVISIONS_TABLE)
    /\ out' = Sent(idParam, DataUnifiedByIdResponse(idParam, q))
    /\ UNCHANGED <<cacheVars, PRIV, now, airtable, req, last, history,
                   mainRecord, metadataRecord>>

\* the main-table record of DataID 12
recP1 ==
    [ id |-> "recP1",
      fields |-> "DataID" :> "12" @@ "Title" :> "Inflacja" @@ "TitleEN" :> "Inflation"
          @@ "DataEN" :> "Year;Value" @@ "Data" :> "2023;11\n2024;3"
          @@ "Comment" :> << "recM1" >> @@ "Metadata" :> << "recX1" >> ]

InitIds ==
    /\ InitLoaded
    /\ mainRecord \in { recP1, NoRecord }

NextIds ==
    \/ \E idParam \in IdParams : GetDataById(idParam, Undefined)
    \/ \E idParam \in IdParams : GetDataMetaById(idParam, Undefined)
    \/ \E idParam \in IdParams : GetDataUnifiedById(idParam, Undefined)

SpecIds == InitIds /\ [][NextIds]_vars

-----------------------------------------------------------------------------
(* The list and news handlers over a main table of several records *)

\* the records the main table holds
MaxRecords == 3

\* the cells UpdatedThere takes: two dates and a text that is no date (the
\* Divisions record recD2 has no UpdatedThere, so its lastUpdate is empty)
UpdateCells == { "2023-11-30", "2024-05-01", "soon" }

\* the i-th record of the main table: the odd ones are built into the
\* content hub recH1, all belong to the category recC4
ListRecord(i, updatedThere, titled) ==
    [ id |-> "recP" \o NumberToString(i),
      fields |-> "DataID" :> NumberToString(10 + i) @@ "CategoryView" :> "Economy"
          @@ "CategorySelect" :> << "recC4" >> @@ "Comment" :> << "recM1" >>
          @@ Opt(titled, "Title", "Inflacja")
          @@ Opt(updatedThere # Undefined, "UpdatedThere", updatedThere)
          @@ Opt(i % 2 = 1, "Content hubs in build", << "recH1" >>) ]

\* the Categories record of Poland and Economy, linked to every record of the
\* main table and to one Divisions record
recC4 ==
    [ id |-> "recC4",
      fields |-> [ TitleEN |-> "Poland", Secondary |-> "Economy", SecondaryEN |-> "Economy",
                   Poland |-> [i \in 1..MaxRecords |-> "recP" \o NumberToString(i)],
                   Divisions |-> << "recD2" >> ] ]

\* the tables of the backing store, the main table filled by `records`
ListTables(records) ==
    [t \in Tables \cup { MAIN } |->
        CASE t = MAIN -> records
          [] t = CATS -> << recC4, recC2 >>
          [] OTHER -> InitialTables[t] ]

\* the four caches loaded a moment ago, the main table of MaxRecords records
InitLists ==
    /\ \E u \in [1..MaxRecords -> UpdateCells], titled \in BOOLEAN :
          airtable = ListTables([i \in 1..MaxRecords |->
                                    ListRecord(i, u[i], i # 2 \/ titled)])
    /\ categoryMapCache = Loaded(StoreRecords(CATS, EmptyMap, << recC4, recC2 >>))
    /\ contentHubsCache = Loaded(StoreRecords(CONTENT_HUBS_TABLE, EmptyMap,
                                              InitialTables[CONTENT_HUBS_TABLE]))
    /\ commentMapCache = Loaded(StoreRecords(COMMENT_TABLE, EmptyMap,
                                             InitialTables[COMMENT_TABLE]))
    /\ divisionsCache = Loaded(StoreRecords(DIVISIONS_TABLE, EmptyMap,
                                            InitialTables[DIVISIONS_TABLE]))
    /\ cacheLastLoaded = CACHE_TTL_MS
    /\ now = CACHE_TTL_MS
    /\ req = [r \in Reqs |-> Idle]
    /\ last = NoResponse
    /\ observe = FALSE
    /\ upstreamVer = 0
    /\ refreshVer = NoRefresh
    /\ loadedAt = [t \in Tables |-> 0]
    /\ PRIV = "secret"
    /\ mainRecord = NoRecord
    /\ metadataRecord = recX1
    /\ out = NoOut

\* the GET routes in the order index.js registers them, a path as its
\* segments
Routes ==
    << << "countries" >>, << "datasets" >>, << "data", ":numericId", "meta" >>,
       << "debug", "divisions" >>, << "debug", "views" >>,
       << "debug", "divisions-structure" >>,
       << "dataset", ":country", ":category", "news" >>,
       << "dataset", ":country", ":contenthub", "news" >>,
       << "dataset", ":country", "news" >>, << "data", ":numericId", "unified" >>,
       << "dataset", "by-hub", ":hubTitle" >>, << "dataset", ":country", ":category" >>,
       << "dataset", ":country" >>, << "categories", ":country" >>,
       << "contenthubs", ":country" >>, << "data", ":numericId" >> >>

\* a route matches a path of as many segments, each equal to the route's or
\* taken by a parameter of it
RouteMatches(route, path) ==
    /\ Len(route) = Len(path)
    /\ \A i \in DOMAIN route :
          \/ route[i] = path[i]
          \/ CharAt(route[i], 1) = ":" /\ path[i] # ""

\* the route the router hands a GET of `path` to: the first registered one
\* that matches
RouteOf(path) == Routes[Least({ i \in DOMAIN Routes : RouteMatches(Routes[i], path) })]

\* the comments of the handler of /dataset/:country/:category/news: of the
\* main-table records through their Comment link, then of the Divisions
\* records from their own fields
CategoryNewsComments(polandRecords, divisionRecords, lang) ==
    LET commented == SelectSeq(polandRecords, LAMBDA r :
                         /\ Truthy(LinkedComment(r.fields, lang))
                         /\ Truthy(Trim(LinkedComment(r.fields, lang))))
        own(f) == IF Truthy(Get(f, "AIComment" \o lang)) /\ Truthy(Trim(f["AIComment" \o lang]))
                  THEN f["AIComment" \o lang]
                  ELSE IF Truthy(Get(f, "AICommentEN")) /\ Truthy(Trim(f.AICommentEN))
                  THEN f.AICommentEN ELSE Undefined
        divisions == SelectSeq(divisionRecords, LAMBDA f : own(f) # Undefined)
    IN  [i \in DOMAIN commented |-> LinkedComment(commented[i].fields, lang)]
            \o [i \in DOMAIN divisions |-> own(divisions[i])]

\* the body the handler of /dataset/:country/:category/news answers
CategoryNewsResponse(country, category, q) ==
    LET asked == [ NoOut EXCEPT !.op = "GET /dataset/:country/:category/news", !.q = q,
                                !.country = country, !.category = category ]
        catParam == ToLowerCase(category)
        matchingCategories == SelectSeq(categoryMapCache.map, LAMBDA e :
            /\ Truthy(Get(e.v, "TitleEN"))
            /\ Trim(ToLowerCase(e.v.TitleEN))
                  = Trim(ToLowerCase(getCountryNameForFiltering(country)))
            /\ Truthy(Get(e.v, "SecondaryEN"))
            /\ Trim(ToLowerCase(e.v.SecondaryEN)) = Trim(catParam))
        divisionIds == LinkedIds(matchingCategories, "Divisions")
        polandIds == LinkedIds(matchingCategories, "Poland")
        divisionRecords == DivisionRecords(divisionIds, divisionsCache.map)
        polandRecords == SelectSeq(AllPoland, LAMBDA r : InSeq(r.id, polandIds))
        comments == CategoryNewsComments(polandRecords, divisionRecords, Lang(q))
    IN  IF matchingCategories = << >>
        THEN [ asked EXCEPT !.status = 404,
                 !.error = "No category found for country \"" \o country
                              \o "\" and category \"" \o catParam \o "\"" ]
        ELSE [ asked EXCEPT !.status = 200, !.fetched = TRUE,
                            !.count = Len(comments), !.comments = comments ]

\* comments.push(comment.comment) over the unified comments of the records
RECURSIVE UnifiedComments(_, _)
UnifiedComments(records, lang) ==
    IF records = << >> THEN << >>
    ELSE LET unified == SelectSeq(getUnifiedAIComments(Head(records), lang), LAMBDA c :
                            Truthy(c.comment) /\ Truthy(Trim(c.comment)))
         IN  [i \in DOMAIN unified |-> unified[i].comment]
                \o UnifiedComments(Tail(records), lang)

\* the body the handler of /dataset/:country/:contenthub/news answers
HubNewsResponse(country, contenthub, q) ==
    LET asked == [ NoOut EXCEPT !.op = "GET /dataset/:country/:contenthub/news", !.q = q,
                                !.country = country, !.contentHub = contenthub ]
        hubId == getContentHubId(contenthub)
        allRecords == FetchMain(getCountryViewId(country), << HubCondition(hubId) >>)
        comments == UnifiedComments(allRecords, Lang(q))
    IN  IF ~Truthy(hubId)
        THEN [ asked EXCEPT !.status = 404,
                 !.error = "Content hub \"" \o contenthub \o "\" not found." ]
        ELSE [ asked EXCEPT !.status = 200, !.fetched = TRUE,
                 !.filterFormula = HubCondition(hubId).text,
                 !.count = Len(comments), !.comments = comments ]

\* GET /dataset/{country}/{segment}/news: the router hands the request to the
\* first of the two routes of that shape, and its handler answers
GetDatasetNews(country, segment, q) ==
    /\ ServedFromCache(CATS) /\ ServedFromCache(CONTENT_HUBS_TABLE)
    /\ ServedFromCache(COMMENT_TABLE) /\ ServedFromCache(DIVISIONS_TABLE)
    /\ out' = [ segment |-> segment ]
                @@ (IF RouteOf(<< "dataset", country, segment, "news" >>)
                         = << "dataset", ":country", ":category", "news" >>
                    THEN CategoryNewsResponse(country, segment, q)
                    ELSE HubNewsResponse(country, segment, q))
    /\ UNCHANGED <<cacheVars, PRIV, now, airtable, req, last, history,
                   mainRecord, metadataRecord>>

\* the values of the query parameters country, category and contentHub, and
\* of the second path segment of a news request
CountryQueries == { Undefined, "eu" }
CategoryQueries == { Undefined, "Economy", "Sport" }
HubQueries == { Undefined, "Artificial Intelligence", "ai", "Chess" }
NewsSegments == { "Economy", "Artificial Intelligence", "Chess" }

NextLists ==
    \/ \E country \in CountryQueries, category \in CategoryQueries,
          contentHub \in HubQueries : GetDatasets(country, category, contentHub, Undefined)
    \/ \E contentHub \in HubQueries : GetDatasetCountry("poland", contentHub, Undefined)
    \/ \E contentHub \in HubQueries :
          GetDatasetCountryCategory("poland", "Economy", contentHub, Undefined)
    \/ \E segment \in NewsSegments, q \in { Undefined, "PL" } :
          GetDatasetNews("poland", segment, q)

SpecLists == InitLists /\ [][NextLists]_vars

-----------------------------------------------------------------------------
(* The detail handlers with every upstream call they make, failing or not, *)
(* for a Divisions record and the main-table record it is linked to        *)

\* the upstream calls of the two handlers: the fetch of the main-table
\* record by DataID, the list fetch that looks for the parent of a division,
\* a Metadata record fetch, and the loads of three sub-caches
Lookups == { "primary", "parent", "metadata", "categories", "comments", "divisions" }

\* e.toString() of the error a failed upstream call throws
UpstreamFailure == "Error: Request failed with status code 503"

\* the main-table record of DataID 12 with the fields a division inherits
recP1Shared ==
    [ recP1 EXCEPT !.fields = @ @@ ( "UpdatedThere" :> "2024-05-01"
          @@ "DescriptionEN" :> "Consumer prices" @@ "DescriptionPL" :> "Ceny konsumpcyjne"
          @@ "UpdateFrequency" :> "monthly" @@ "UnitPL" :> "proc." ) ]

\* the Divisions record of DataID 2: linked to recP1 or not, with or without
\* its own last update and description
DivisionOf(b) ==
    [ id |-> "recD2",
      fields |-> "Title" :> "South" @@ "DataID" :> "2" @@ "AICommentEN" :> "South rose"
          @@ Opt(b[1], "Main_Data", << "recP1" >>)
          @@ Opt(b[2], "UpdatedThere", "2020-01-01")
          @@ Opt(b[3], "DescriptionEN", "Prices in the south") ]

\* f[key] = value; a property set to undefined reads as a missing one
SetField(f, key, value) ==
    IF value = Undefined THEN [k \in DOMAIN f \ { key } |-> f[k]]
    ELSE (key :> value) @@ f

\* candidates.find(field => field)
RECURSIVE Find(_)
Find(candidates) ==
    IF candidates = << >> THEN Undefined
    ELSE IF Truthy(Head(candidates)) THEN Head(candidates)
    ELSE Find(Tail(candidates))

\* the assignments GET /data/:numericId makes to the fields f of a Divisions
\* record whose Main_Data names a main-table record of fields polandFields
EnrichedDivision(f, polandFields, polandMetadataFields, lang) ==
    LET descriptionKey == "Description" \o lang
        f1 == SetField(f, descriptionKey,
                  Or(Or(Get(polandFields, descriptionKey), Get(polandFields, "DescriptionEN")),
                     Get(f, descriptionKey)))
        f2 == SetField(f1, "UpdateFrequency",
                  Or(Get(polandFields, "UpdateFrequency"), Get(f, "UpdateFrequency")))
        f3 == SetField(f2, "UpdatedThere",
                  Or(Get(polandFields, "UpdatedThere"), Get(f, "UpdatedThere")))
        f4 == SetField(f3, "NextUpdateTime",
                  Or(Get(polandFields, "NextUpdateTime"), Get(f, "NextUpdateTime")))
        f5 == SetField(f4, "sourceName",
                  Or(Find(<< Get(polandFields, "Source Name" \o lang),
                             Get(polandFields, "Source NameEN"), Get(polandFields, "SourceName"),
                             Get(polandFields, "Source"), Get(polandFields, "Source Name"),
                             Get(polandFields, "SourceName"), Get(polandFields, "Source name"),
                             Get(polandFields, "sourceName"), Get(polandFields, "source_name") >>),
                     Get(f, "sourceName")))
        f6 == SetField(f5, "unit",
                  Or(Find(<< Get(polandFields, "Unit" \o lang), Get(polandFields, "UnitEN"),
                             Get(polandFields, "Unit"), Get(polandFields, "Unit"),
                             Get(polandFields, "unit") >>),
                     Get(f, "unit")))
    IN  ("_polandMetadataFields" :> polandMetadataFields) @@ f6

\* meta.sourceName and meta.unit of a division that carries
\* _polandMetadataFields
PolandSourceName(f, lang) ==
    Or(Or(Or(Get(f["_polandMetadataFields"], "Source Name" \o lang),
             Get(f["_polandMetadataFields"], "Source NameEN")),
          Get(f["_polandMetadataFields"], "Source Name")), "")

PolandUnit(f, lang) ==
    Or(Or(Or(Get(f["_polandMetadataFields"], "Unit" \o lang),
             Get(f["_polandMetadataFields"], "UnitEN")),
          Get(f["_polandMetadataFields"], "Unit")), "")

\* res.json({ meta, data, translations }) of GET /data/:numericId for the
\* fields f of a main-table record, or of a Divisions record
DetailBody(isDivision, f, metadataFields, catMap, allComments, q) ==
    LET lang == Lang(q)
        sourceNameValue ==
            IF isDivision
            THEN Or(Get(f, "sourceName"), Or(Get(metadataFields, "Source Name" \o lang),
                                             Get(metadataFields, "Source NameEN")))
            ELSE Or(Get(metadataFields, "Source Name" \o lang),
                    Get(metadataFields, "Source NameEN"))
        unitValue ==
            IF isDivision
            THEN Or(Get(f, "unit"), Or(Get(metadataFields, "Unit" \o lang),
                                       Get(metadataFields, "UnitEN")))
            ELSE Or(Get(metadataFields, "Unit" \o lang), Get(metadataFields, "UnitEN"))
        overridden == isDivision /\ "_polandMetadataFields" \in DOMAIN f
    IN  [ NoOut EXCEPT
            !.op = "GET /data/:numericId", !.q = q, !.status = 200, !.fetched = TRUE,
            !.meta = [ DetailMeta(f, metadataFields, lang, catMap, allComments) EXCEPT
                         !.summary = IF isDivision THEN DivisionSummary(f, lang)
                                     ELSE Summary(f, lang, allComments),
                         !.sourceName =
                            IF overridden THEN PolandSourceName(f, lang)
                            ELSE IF Truthy(sourceNameValue) THEN sourceNameValue
                            ELSE DetailSourceName(f, metadataFields, lang),
                         !.unit =
                            IF overridden THEN PolandUnit(f, lang)
                            ELSE IF Truthy(unitValue) THEN unitValue
                            ELSE DetailUnit(f, metadataFields, lang) ],
            !.data = ParseTable(Or(Get(f, "Data" \o lang), Get(f, "DataEN")), Get(f, "Data")),
            !.translations = Translations(f, metadataFields) ]

\* res.json({ meta }) of GET /data/:numericId/meta
MetaBody(isDivision, f, metadataFields, catMap, allComments, q) ==
    LET lang == Lang(q)
        overridden == isDivision /\ "_polandMetadataFields" \in DOMAIN f
    IN  [ NoOut EXCEPT
            !.op = "GET /data/:numericId/meta", !.q = q, !.status = 200, !.fetched = TRUE,
            !.meta =
               [ title |-> DetailTitle(f, lang),
                 description |-> Description(f, lang),
                 updateFrequency |-> Or(Get(f, "UpdateFrequency"), ""),
                 lastUpdate |-> Or(Get(f, "UpdatedThere"), ""),
                 nextUpdateTime |-> Or(Get(f, "NextUpdateTime"), ""),
                 category |-> DetailCategory(f, lang, catMap),
                 contentHub |-> ContentHub(f),
                 summary |-> IF isDivision THEN DivisionSummary(f, lang)
                             ELSE Summary(f, lang, allComments),
                 sourceName |-> IF overridden THEN PolandSourceName(f, lang)
                                ELSE MetaSourceName(f, metadataFields, lang),
                 unit |-> IF overridden THEN PolandUnit(f, lang)
                          ELSE MetaUnit(f, metadataFields, lang) ] ]

\* res.status(500).json({ error: e.toString() }) of the handler's catch
ServerError(op, q) ==
    [ NoOut EXCEPT !.op = op, !.q = q, !.status = 500, !.fetched = TRUE,
                   !.error = UpstreamFailure ]

\* what `await loadAllX()` hands the handler: the stored map, or the map of
\* the table as loaded now (the clock of this specification is fresh, so a
\* getter goes upstream exactly when its sub-cache is null)
Got(t) ==
    IF ServedFromCache(t) THEN CacheOf(t).map
    ELSE StoreRecords(t, EmptyMap, Live(airtable[t]))

\* what `await loadAllDivisions()` hands the handler: a failed load gives the
\* empty map
GotDivisions(failing) ==
    IF ~ServedFromCache(DIVISIONS_TABLE) /\ "divisions" \in failing
    THEN EmptyMap ELSE Got(DIVISIONS_TABLE)

\* the entries of allDivisions with divisionFields.DataID === numericId
FoundIn(allDivisions, numericId) ==
    SelectSeq(allDivisions, LAMBDA e :
        /\ Get(e.v, "DataID") # Undefined
        /\ JsNumber(DigitsValue(e.v.DataID)) = numericId)

\* f as the handler reads it from the point where meta is built: the fields
\* of the main-table record, or those of the Divisions record after the
\* assignments made when its Main_Data names a main-table record
DetailFields(metaOnly, idParam, q, failing, allDivisions) ==
    LET found == FoundIn(allDivisions, NumericId(idParam))
        mainDataId == LinkedId(found[1].v, "Main_Data")
        linkedPolandRecord == SelectSeq(AllPoland, LAMBDA r : r.id = mainDataId)
        polandFields == linkedPolandRecord[1].fields
        polandMetadataFields ==
            IF LinkedId(polandFields, "Metadata") # Undefined /\ "metadata" \notin failing
            THEN metadataRecord ELSE << >>
    IN  IF ~StartsWithD(idParam) THEN MainRecordOfId(NumericId(idParam)).fields
        ELSE IF found = << >> THEN << >>
        ELSE IF mainDataId = Undefined \/ linkedPolandRecord = << >> THEN found[1].v
        ELSE IF metaOnly
        THEN ("_polandMetadataFields" :> polandMetadataFields) @@ found[1].v
        ELSE EnrichedDivision(found[1].v, polandFields, polandMetadataFields, Lang(q))

\* The run of one of the two handlers for path segment idParam, the upstream
\* calls in `failing` failing: the response, the Divisions map the handler
\* leaves behind (loaded when it was null, and written to through f), and
\* whether it got past loadAllCategories and loadAllComments.
DetailRun(metaOnly, idParam, q, failing, allDivisions, f, catMap, allComments) ==
    LET op == IF metaOnly THEN "GET /data/:numericId/meta" ELSE "GET /data/:numericId"
        numericId == NumericId(idParam)
        isDivision == StartsWithD(idParam)
        found == FoundIn(allDivisions, numericId)
        metadataFields ==
            IF LinkedId(f, "Metadata") # Undefined /\ "metadata" \notin failing
            THEN metadataRecord ELSE << >>
        categoriesFail == ~ServedFromCache(CATS) /\ "categories" \in failing
        commentsAsked == ~(metaOnly /\ isDivision)
        commentsFail == commentsAsked /\ ~ServedFromCache(COMMENT_TABLE)
                            /\ "comments" \in failing
        before == [ response |-> NoOut, divisions |-> divisionsCache,
                    categories |-> FALSE, comments |-> FALSE ]
        loaded == [ before EXCEPT !.divisions = Loaded(allDivisions) ]
        written == [ before EXCEPT !.divisions = Loaded(MapSet(allDivisions, found[1].k, f)) ]
        atCategories == IF isDivision THEN written ELSE before
        body == IF metaOnly
                THEN MetaBody(isDivision, f, metadataFields, catMap, allComments, q)
                ELSE DetailBody(isDivision, f, metadataFields, catMap, allComments, q)
    IN  IF numericId = NaN
        THEN [ before EXCEPT !.response = InvalidId(op, q, InvalidDataId) ]
        ELSE IF isDivision /\ found = << >>
        THEN [ loaded EXCEPT !.response =
                 [ NotFound(op, q, NoDivisionDataFor(numericId)) EXCEPT !.fetched = TRUE ] ]
        ELSE IF isDivision /\ LinkedId(found[1].v, "Main_Data") # Undefined
                /\ "parent" \in failing
        THEN [ loaded EXCEPT !.response = ServerError(op, q) ]
        ELSE IF ~isDivision /\ "primary" \in failing
        THEN [ before EXCEPT !.response = ServerError(op, q) ]
        ELSE IF ~isDivision /\ MainRecordOfId(numericId) = NoRecord
        THEN [ before EXCEPT !.response =
                 [ NotFound(op, q, NoDataFor(numericId)) EXCEPT !.fetched = TRUE ] ]
        ELSE IF categoriesFail
        THEN [ atCategories EXCEPT !.response = ServerError(op, q) ]
        ELSE IF commentsFail
        THEN [ atCategories EXCEPT !.response = ServerError(op, q), !.categories = TRUE ]
        ELSE [ atCategories EXCEPT !.response = body, !.categories = TRUE,
                                   !.comments = commentsAsked ]

\* the handler runs: its response, and the sub-caches as it leaves them
Detail(metaOnly, idParam, q, failing) ==
    \E allDivisions \in { IF StartsWithD(idParam) THEN GotDivisions(failing) ELSE EmptyMap },
       catMap \in { Got(CATS) }, allComments \in { Got(COMMENT_TABLE) } :
      \E f \in { DetailFields(metaOnly, idParam, q, failing, allDivisions) } :
        \E run \in { DetailRun(metaOnly, idParam, q, failing,
                                allDivisions, f, catMap, allComments) } :
          /\ out' = [ id |-> idParam, failing |-> failing ] @@ run.response
          /\ divisionsCache' = run.divisions
          /\ categoryMapCache' = IF run.categories THEN Loaded(catMap) ELSE categoryMapCache
          /\ commentMapCache' = IF run.comments THEN Loaded(allComments)
                                ELSE commentMapCache
          /\ UNCHANGED <<contentHubsCache, cacheLastLoaded, PRIV, now, airtable, req, last,
                         history, mainRecord, metadataRecord>>

\* GET /data/:numericId
GetDataFull(idParam, q, failing) == Detail(FALSE, idParam, q, failing)

\* GET /data/:numericId/meta
GetDataMetaFull(idParam, q, failing) == Detail(TRUE, idParam, q, failing)

\* the sub-caches null as the process starts, a division of DataID 2 in the
\* Divisions table, the main table with the record of DataID 12 or empty
InitEnrich ==
    /\ \E b \in [1..3 -> BOOLEAN] :
          airtable = [InitialTables EXCEPT ![DIVISIONS_TABLE] = << recD1, DivisionOf(b) >>]
    /\ categoryMapCache = Null
    /\ commentMapCache = Null
    /\ divisionsCache = Null
    /\ contentHubsCache = Null
    /\ cacheLastLoaded = CACHE_TTL_MS
    /\ now = CACHE_TTL_MS
    /\ req = [r \in Reqs |-> Idle]
    /\ last = NoResponse
    /\ observe = FALSE
    /\ upstreamVer = 0
    /\ refreshVer = NoRefresh
    /\ loadedAt = [t \in Tables |-> 0]
    /\ PRIV = "secret"
    /\ mainRecord \in { recP1Shared, NoRecord }
    /\ metadataRecord = recX1
    /\ out = NoOut

\* the path segments sent, and the sets of failing upstream calls: none, or
\* one of them
DetailIds == { "d2", "12" }
Failings == { {} } \cup { { l } : l \in Lookups }

NextEnrich ==
    \/ \E idParam \in DetailIds, q \in { Undefined, "PL" }, failing \in Failings :
          GetDataFull(idParam, q, failing)
    \/ \E idParam \in DetailIds, q \in { Undefined, "PL" }, failing \in Failings :
          GetDataMetaFull(idParam, q, failing)
    \/ GetDataUnifiedById("12", Undefined)

SpecEnrich == InitEnrich /\ [][NextEnrich]_vars

-----------------------------------------------------------------------------
(* getCategoryIdByName over Categories maps of every shape *)

\* the number of records of the Categories map
MaxCategories == 2

\* the SecondaryEN and TitleEN cells of a Categories record: missing, a
\* string in another case or with surrounding whitespace, or an array
SecondaryCells == { Undefined, " ECONOMY", "[Economy,Sport]", "[Sport,Economy]" }
TitleCells == { "Poland", "[ Poland,Germany]", "Germany" }

CategoryRecord(i, secondaryEN, titleEN) ==
    [ id |-> "recC" \o NumberToString(i),
      fields |-> Opt(secondaryEN # Undefined, "SecondaryEN", secondaryEN)
                   @@ ("TitleEN" :> titleEN) ]

\* the Categories sub-cache loaded from a table of MaxCategories records
InitCategories ==
    /\ \E s \in [1..MaxCategories -> SecondaryCells], t \in [1..MaxCategories -> TitleCells] :
          /\ airtable = [InitialTables EXCEPT
                           ![CATS] = [i \in 1..MaxCategories |-> CategoryRecord(i, s[i], t[i])]]
          /\ categoryMapCache = Loaded(StoreRecords(CATS, EmptyMap, airtable[CATS]))
    /\ contentHubsCache = Null
    /\ commentMapCache = Null
    /\ divisionsCache = Null
    /\ cacheLastLoaded = CACHE_TTL_MS
    /\ now = CACHE_TTL_MS
    /\ req = [r \in Reqs |-> Idle]
    /\ last = NoResponse
    /\ observe = FALSE
    /\ upstreamVer = 0
    /\ refreshVer = NoRefresh
    /\ loadedAt = [t \in Tables |-> 0]
    /\ PRIV = "secret"
    /\ mainRecord = NoRecord
    /\ metadataRecord = recX1
    /\ out = NoOut

\* await getCategoryIdByName(categoryName, countryName), the Categories
\* sub-cache fresh
CategoryIdByName(categoryName, countryName) ==
    /\ ServedFromCache(CATS)
    /\ out' = [ categoryId |-> getCategoryIdByName(categoryName, countryName) ]
                 @@ [ NoOut EXCEPT !.op = "getCategoryIdByName",
                                   !.category = categoryName, !.country = countryName ]
    /\ UNCHANGED <<cacheVars, PRIV, now, airtable, req, last, history,
                   mainRecord, metadataRecord>>

NextCategories ==
    \E categoryName \in { "Economy", "economy ", "Sport" }, countryName \in { "Poland", "POLAND", "Germany" } :
        CategoryIdByName(categoryName, countryName)

SpecCategories == InitCategories /\ [][NextCategories]_vars

-----------------------------------------------------------------------------
(* The pagination loops, page by page: the four getters and the list fetch *)
(* of GET /datasets, every request answered sooner or later                 *)

\* GET /datasets without query parameters reaches its do-while loop and
\* sends the request for the first page of the main table
DatasetsMiss(r) ==
    /\ FreeSlot(r)
    /\ req' = [req EXCEPT ![r] = [ Idle EXCEPT !.pc = "listing", !.table = MAIN ]]
    /\ UNCHANGED <<cacheVars, PRIV, now, airtable, last, history>>
    /\ UNCHANGED render

\* A page of the main table arrives: allRecords.push(...r.data.records); the
\* loop asks for the next page, or ends: with no record the handler answers
\* 404, and else it goes on, with allRecords, to loadAllCategories and its
\* items (status 0: nothing is sent yet).
DatasetsPage(r) ==
    /\ req[r].pc = "listing"
    /\ LET page == ListPage(airtable[MAIN], req[r].offset)
           allRecords == req[r].map \o page.records
       IN  IF page.offset # NoOffset
           THEN /\ req' = [req EXCEPT ![r].map = allRecords, ![r].offset = page.offset,
                                      ![r].pages = @ + 1]
                /\ UNCHANGED last
           ELSE /\ req' = [req EXCEPT ![r] = Idle]
                /\ last' = [ NoResponse EXCEPT
                               !.op = "list", !.table = MAIN, !.ret = allRecords,
                               !.pages = req[r].pages + 1,
                               !.status = IF allRecords = << >> THEN 404 ELSE 0 ]
    /\ UNCHANGED <<cacheVars, PRIV, now, airtable, history>>
    /\ UNCHANGED render

\* a page fetch of the list fails: the handler's catch answers 500
DatasetsFail(r, message) ==
    /\ req[r].pc = "listing"
    /\ req' = [req EXCEPT ![r] = Idle]
    /\ last' = [ RespondError(MAIN, message, req[r].pages) EXCEPT !.op = "list" ]
    /\ UNCHANGED <<cacheVars, PRIV, now, airtable, history>>
    /\ UNCHANGED render

\* the sub-caches null, the main table of MaxRecords records
InitPages ==
    /\ InitCache
    /\ observe = FALSE
    /\ PRIV = "secret"
    /\ airtable = ListTables([i \in 1..MaxRecords |-> ListRecord(i, "2024-05-01", TRUE)])

NextPages ==
    \/ \E r \in Reqs, t \in Tables : CallMiss(r, t)
    \/ \E r \in Reqs : FetchPage(r)
    \/ \E r \in Reqs, message \in UpstreamErrors : FetchFail(r, message)
    \/ \E r \in Reqs : DatasetsMiss(r)
    \/ \E r \in Reqs : DatasetsPage(r)
    \/ \E r \in Reqs, message \in UpstreamErrors : DatasetsFail(r, message)

\* the request of r that is in flight is answered, by a page or by an error
Answered(r) ==
    \/ FetchPage(r)
    \/ \E message \in UpstreamErrors : FetchFail(r, message)
    \/ DatasetsPage(r)
    \/ \E message \in UpstreamErrors : DatasetsFail(r, message)

\* `await axios.get(...)` resumes when the promise settles: the upstream
\* answers every request, with a page or with an error
SpecPages ==
    InitPages /\ [][NextPages]_vars /\ \A r \in Reqs : WF_vars(Answered(r))

-----------------------------------------------------------------------------
(* The four getters for as long as the process runs: time never stops, the *)
(* getters are called again and again, the upstream answers with pages      *)

\* Time passes. Only the difference now - cacheLastLoaded is ever read
\* (isCacheFresh), so the clock is kept relative to a moving origin: at the
\* bound, both times move back by one instead of `now` moving on by one. A
\* cacheLastLoaded that has reached the origin is older than the TTL already,
\* and stays so.
TickOn ==
    /\ IF now < CACHE_TTL_MS + MaxTicks
       THEN /\ now' = now + 1
            /\ cacheLastLoaded' = cacheLastLoaded
       ELSE /\ cacheLastLoaded > 0
            /\ now' = now
            /\ cacheLastLoaded' = cacheLastLoaded - 1
    /\ UNCHANGED <<categoryMapCache, contentHubsCache, commentMapCache, divisionsCache>>
    /\ UNCHANGED <<PRIV, airtable, req, last, history>>
    /\ UNCHANGED render

\* a handler calls the getter of table t
Call(t) == CallHit(t) \/ CallMiss(FirstReq, t)

InitAges ==
    /\ InitCache
    /\ observe = FALSE
    /\ PRIV = "secret"
    /\ airtable = InitialTables

NextAges ==
    \/ \E t \in Tables : CallHit(t)
    \/ \E t \in Tables : CallMiss(FirstReq, t)
    \/ FetchPage(FirstReq)
    \/ TickOn

\* time keeps advancing, each of the four getters keeps being called, and
\* every page asked for arrives
SpecAges ==
    /\ InitAges /\ [][NextAges]_vars
    /\ WF_vars(TickOn)
    /\ WF_vars(FetchPage(FirstReq))
    /\ \A t \in Tables : SF_vars(Call(t))

-----------------------------------------------------------------------------
(* Properties of the Lookup Cache *)

\* the number of list requests that read the whole of a table
PagesOf(tbl) == IF Len(tbl) = 0 THEN 1 ELSE (Len(tbl) + PageSize - 1) \div PageSize

\* one entry per record, keyed by record id, in the order of the table
EntriesById(tbl) == [i \in DOMAIN tbl |-> [k |-> tbl[i].id, v |-> tbl[i].fields]]

\* the getters whose map is keyed by record id
IdKeyed == { CATS, COMMENT_TABLE, DIVISIONS_TABLE }

\* request r receives its last page in this step
Completes(r) == req[r].pc = "fetching" /\ req'[r].pc = "idle" /\ FetchPage(r)

\* C1: a getter answers from its stored map, with no fetch, exactly when the
\* map is non-null and less than CACHE_TTL_MS has passed since
\* cacheLastLoaded; otherwise it fetches, and when its pagination ends it has
\* read every page of its own table, stored the map it returns and set
\* cacheLastLoaded to the current time.
C1_FreshnessRule ==
    /\ [](\A t \in Tables :
            IF ~CacheOf(t).null /\ now - cacheLastLoaded < CACHE_TTL_MS
            THEN ENABLED CallHit(t) /\ \A r \in Reqs : ~ENABLED CallMiss(r, t)
            ELSE ~ENABLED CallHit(t)
                    /\ (req[FirstReq].pc = "idle" => ENABLED CallMiss(FirstReq, t)))
    /\ [][ \A t \in Tables :
            /\ CallHit(t) =>
                  /\ last'.ret = CacheOf(t).map
                  /\ last'.hit /\ last'.pages = 0
                  /\ UNCHANGED <<cacheVars, req>>
            /\ \A r \in Reqs :
                  req[r].table = t /\ Completes(r) =>
                      /\ last'.pages = PagesOf(airtable[t])
                      /\ t \in IdKeyed => last'.ret = EntriesById(Live(airtable[t]))
                      /\ ~last'.hit
                      /\ CacheOf(t)' = Loaded(last'.ret)
                      /\ cacheLastLoaded' = now
       ]_vars

\* a getter answered from its cache at the last moment the cache is fresh, and
\* a reload at the first moment it is stale is under way
C1_Witness ==
    /\ last.op = "load" /\ last.hit /\ last.table = DIVISIONS_TABLE
    /\ last.ret = EntriesById(Live(airtable[DIVISIONS_TABLE]))
    /\ now - cacheLastLoaded = CACHE_TTL_MS
    /\ req[FirstReq].pc = "fetching" /\ req[FirstReq].table = DIVISIONS_TABLE

\* the time of the most recent store by any of the four getters
LatestStore ==
    LET times == { loadedAt[t] : t \in Tables }
    IN  CHOOSE x \in times : \A y \in times : y <= x

\* C2: the four sub-caches share one clock: a getter that ends a reload has
\* changed only its own sub-cache and set cacheLastLoaded to the current time,
\* and every non-null sub-cache is served from the cache exactly while less
\* than CACHE_TTL_MS has passed since the latest store by any getter, however
\* old its own content is.
C2_SharedClock ==
    /\ [](\A t \in Tables :
            ~CacheOf(t).null =>
                (ENABLED CallHit(t) <=> now - LatestStore < CACHE_TTL_MS))
    /\ [][ \A r \in Reqs :
            req[r].pc = "fetching" /\ req'[r].pc = "idle" /\ last'.status = 200 =>
                /\ \A t \in Tables \ { req[r].table } : CacheOf(t)' = CacheOf(t)
                /\ cacheLastLoaded' = now
                /\ cacheLastLoaded' >= cacheLastLoaded
                /\ \A t \in Tables : ~CacheOf(t)'.null => ServedFromCache(t)'
       ]_vars

\* GET /countries is answered from a Categories map stored CACHE_TTL_MS ago
\* or earlier, because the Content hubs getter reloaded since
C2_Witness ==
    /\ last.op = "load" /\ last.hit /\ last.table = CATS
    /\ last.ret = categoryMapCache.map /\ last.ret # EmptyMap
    /\ now - loadedAt[CATS] >= CACHE_TTL_MS
    /\ loadedAt[CONTENT_HUBS_TABLE] > loadedAt[CATS]

\* what GET /countries answers when it reads the Categories table as it is
UpstreamCountries == Countries(EntriesById(Live(airtable[CATS])))

\* C3: an authorized POST /cache/refresh empties the four sub-caches and
\* zeroes cacheLastLoaded, and a GET /countries that starts after it, the
\* Categories table not having changed since the refresh, answers the
\* countries of that table, whatever was in flight when the refresh arrived.
C3_RefreshThenCountries ==
    [][ /\ \A header \in Headers :
            CacheRefresh(header) /\ last'.status = 200 =>
                /\ \A t \in Tables : CacheOf(t)'.null
                /\ cacheLastLoaded' = 0
        /\ refreshVer = { upstreamVer } /\ CallHit(CATS) =>
              last'.countries = UpstreamCountries
        /\ \A r \in Reqs :
              /\ req[r].table = CATS
              /\ req[r].startRefresh = { upstreamVer }
              /\ Completes(r)
              => last'.countries = UpstreamCountries
      ]_vars

\* C4: a POST /cache/refresh without an x-api-key header, or with a value
\* other than the configured secret, is answered 403 and leaves the four
\* sub-caches and cacheLastLoaded as they were, PRIVATE_API_KEY set or not.
C4_RefreshNeedsKey ==
    [][ \A header \in Headers :
            CacheRefresh(header) /\ (header = Undefined \/ header # PRIV) =>
                last'.status = 403 /\ UNCHANGED cacheVars
      ]_vars

\* C5: when a page fetch fails, the Divisions getter raises nothing and
\* stores and returns an empty map, whatever pages it had read; each of the
\* other three getters lets the error reach the handler, which answers 500
\* with the text of the error, and no sub-cache changes.
C5_FailurePolicy ==
    [][ \A r \in Reqs, message \in UpstreamErrors :
            FetchFail(r, message) =>
                IF req[r].table = DIVISIONS_TABLE
                THEN /\ last'.status = 200 /\ last'.error = << >>
                     /\ last'.ret = EmptyMap
                     /\ divisionsCache' = Loaded(EmptyMap)
                ELSE /\ last'.status = 500
                     /\ \E i \in DOMAIN last'.error : last'.error[i] = message
                     /\ UNCHANGED cacheVars
      ]_vars

\* the Divisions getter failed after reading a page and answered an empty map
C5_Witness ==
    /\ last.op = "load" /\ last.table = DIVISIONS_TABLE /\ last.status = 200
    /\ ~last.hit /\ last.pages >= 1 /\ last.pages < PagesOf(airtable[DIVISIONS_TABLE])
    /\ last.ret = EmptyMap
    /\ divisionsCache = Loaded(EmptyMap)

\* the entries of a map, and whether no key occurs twice
Pairs(m) == { m[i] : i \in DOMAIN m }

IsMap(m) == \A i, j \in DOMAIN m : m[i].k = m[j].k => i = j

\* one entry per distinct non-empty Title, keyed by the Title, holding the
\* fields and the id of the last record of that Title
HubPairs(tbl) ==
    LET titled == { i \in DOMAIN tbl : Truthy(Get(tbl[i].fields, "Title")) }
        lastOfTitle == { i \in titled : \A j \in titled :
                            tbl[j].fields.Title = tbl[i].fields.Title => j <= i }
    IN  { [k |-> tbl[i].fields.Title, v |-> [id |-> tbl[i].id] @@ tbl[i].fields] :
            i \in lastOfTitle }

-----------------------------------------------------------------------------
(* Properties of the record handlers *)

\* the first non-empty of R.Title{L}, R.TitleEN, R.Title, and else ""
TitleByPriority(f, L) ==
    LET chain == << Get(f, "Title" \o L), Get(f, "TitleEN"), Get(f, "Title") >>
        nonEmpty == { i \in DOMAIN chain : chain[i] # Undefined /\ chain[i] # "" }
    IN  IF nonEmpty = {} THEN "" ELSE chain[Least(nonEmpty)]

DetailOps == { "GET /data/:numericId", "GET /data/:numericId/meta" }

\* the titles a response carries
TitlesOf(o) ==
    IF o.op \in DetailOps THEN { o.meta.title }
    ELSE { o.items[i].meta.title : i \in DOMAIN o.items }

\* C8: for a supported language L, every title the detail and the list
\* handlers emit for record R is defined and is the first non-empty of
\* R.Title{L}, R.TitleEN, R.Title, and else the empty string.
C8_TitlePriority ==
    out.status = 200 /\ Lang(out.q) \in LANGUAGES =>
        \A title \in TitlesOf(out) :
            /\ title # Undefined
            /\ title = TitleByPriority(mainRecord.fields, Lang(out.q))

\* the parts of a response that depend on the language
SameAnswer(a, b) ==
    /\ a.status = b.status
    /\ a.meta = b.meta
    /\ a.items = b.items
    /\ a.data = b.data

\* C9: a lang value outside the supported codes gives, from each record
\* handler, the answer the same request gives with lang=EN.
C9_UnknownLangIsEN ==
    [][ \A q \in LangParams :
            Lang(q) \notin LANGUAGES =>
                /\ GetData(q) => SameAnswer(out', DataResponse("EN"))
                /\ GetDataMeta(q) => SameAnswer(out', DataMetaResponse("EN"))
                /\ GetDatasets(Undefined, Undefined, Undefined, q)
                      => SameAnswer(out', DatasetsResponse(Undefined, Undefined, Undefined, "EN"))
                /\ \A country \in CountryParams :
                      /\ GetDatasetCountry(country, Undefined, q) =>
                            SameAnswer(out', DatasetCountryResponse(country, Undefined, "EN"))
                      /\ GetDatasetCountryCategory(country, "Economy", Undefined, q) =>
                            SameAnswer(out', DatasetCountryCategoryResponse(country, "Economy",
                                                                       Undefined, "EN"))
      ]_vars

\* the k-th smallest member of a set of numbers
Kth(S, k) == CHOOSE x \in S : Cardinality({ y \in S : y <= x }) = k

\* the lines of a body, and the semicolon-separated values of a line, counted
\* by their separators
LineCount(body) == Cardinality(Places(body, "\n")) + 1

Line(body, k) ==
    LET breaks == Places(body, "\n")
        from == IF k = 1 THEN 1 ELSE Kth(breaks, k - 1) + 1
        to == IF k = LineCount(body) THEN Len(body) ELSE Kth(breaks, k) - 1
    IN  SubSeq(body, from, to)

ValueCount(line) == Cardinality(Places(line, ";")) + 1

Field(line, k) ==
    LET breaks == Places(line, ";")
        from == IF k = 1 THEN 1 ELSE Kth(breaks, k - 1) + 1
        to == IF k = ValueCount(line) THEN Len(line) ELSE Kth(breaks, k) - 1
    IN  SubSeq(line, from, to)

\* the characters of a sequence, as one string
RECURSIVE Concat(_)
Concat(chars) == IF chars = << >> THEN "" ELSE Head(chars) \o Concat(Tail(chars))

\* digits with at most one point among them
IsNumeral(cell) ==
    /\ \E i \in 1..Len(cell) : CharAt(cell, i) \in Digits
    /\ \A i \in 1..Len(cell) : CharAt(cell, i) \in Digits \/ CharAt(cell, i) = "."
    /\ \A i, j \in Places(cell, ".") : i = j

\* the number a numeral writes
NumeralValue(cell) ==
    LET digits == SelectSeq([i \in 1..Len(cell) |-> CharAt(cell, i)], LAMBDA c : c \in Digits)
        after == { i \in 1..Len(cell) : \E p \in Places(cell, ".") : p < i }
    IN  Decimal(DigitsValue(Concat(digits)), Cardinality(after))

\* what a trimmed cell is to become
Coerced(cell) ==
    IF cell = "" THEN JsString("")
    ELSE IF IsNumeral(cell) THEN NumeralValue(cell)
    ELSE JsString(cell)

\* C11: in every row the parser makes, a trimmed cell that is a number is
\* that number ("13.9" is 13.9), a cell that is not a number is the trimmed
\* string ("N/A" stays "N/A"), and an empty or all-whitespace cell is the
\* empty string.
C11_CellCoercion ==
    out.status = 200 =>
        \A j \in DOMAIN out.data :
            LET names == Cells(mainRecord.fields.DataEN)
            IN  \A i \in DOMAIN names :
                    MapGet(out.data[j], names[i])
                        = Coerced(Trim(Field(mainRecord.fields.Data, i)))

\* the keys prefix{l} of the languages other than L that hold a non-empty
\* value in a field set
TranslatedKeys(fields, prefixes, L) ==
    { k \in { prefix \o l : prefix \in prefixes, l \in LANGUAGES \ { L } } :
        Get(fields, k) # Undefined /\ Get(fields, k) # "" }

\* C12: the translations of GET /data/{id}?lang=L hold every non-empty
\* Title, Description, Data and AIComment field of the record in every
\* supported language but L, and every non-empty Definitions, ResearchName,
\* ResearchPurpose, Methodology, Source Name and Unit field of its Metadata
\* record in those languages; no key of language L and no empty value.
C12_TranslationsOfOthers ==
    out.op = "GET /data/:numericId" /\ out.status = 200 /\ Lang(out.q) \in LANGUAGES =>
        LET f == mainRecord.fields
            L == Lang(out.q)
            ofRecord == TranslatedKeys(f, { "Title", "Description", "Data", "AIComment" }, L)
            ofMetadata == TranslatedKeys(MetadataFields(f),
                              { "Definitions", "ResearchName", "ResearchPurpose",
                                "Methodology", "Source Name", "Unit" }, L)
        IN  /\ DOMAIN out.translations = ofRecord \cup ofMetadata
            /\ \A k \in ofRecord : out.translations[k] = f[k]
            /\ \A k \in ofMetadata : out.translations[k] = MetadataFields(f)[k]
            /\ \A k \in DOMAIN out.translations : out.translations[k] # ""

\* an object as res.json sends it: a property whose value is undefined is
\* left out
Json(obj) == [k \in { k \in DOMAIN obj : obj[k] # Undefined } |-> obj[k]]

\* C13: for every record and language, GET /data/{id}/meta answers the
\* status and the meta object that GET /data/{id} answers.
C13_SameMeta ==
    out.op = "GET /data/:numericId/meta" =>
        /\ out.status = DataResponse(out.q).status
        /\ Json(out.meta) = Json(DataResponse(out.q).meta)

\* a decimal number
IsDecimal(s) == Len(s) > 0 /\ \A i \in 1..Len(s) : CharAt(s, i) \in Digits

\* a path segment the handlers of /data/{id} and /data/{id}/meta accept by
\* the documentation: a decimal number, or one behind the prefix d
WellFormedId(op, idParam) ==
    \/ IsDecimal(idParam)
    \/ /\ op # "GET /data/:numericId/unified"
       /\ StartsWithD(idParam) /\ IsDecimal(SubSeq(idParam, 2, Len(idParam)))

\* C14: GET /data/{id}, /data/{id}/meta and /data/{id}/unified answer 400
\* with an error text, and read nothing from the backing store, for every
\* path segment that is not a decimal number (behind an optional d on the
\* first two), "12a" included.
C14_MalformedIdRejected ==
    out.op # "none" /\ ~WellFormedId(out.op, out.id) =>
        /\ out.status = 400
        /\ out.error # ""
        /\ ~out.fetched

\* text holds piece
Contains(text, piece) ==
    \E i \in 1..(Len(text) - Len(piece) + 1) : SubSeq(text, i, i + Len(piece) - 1) = piece

\* the number of a well-formed path segment, behind its prefix
NumberOfId(idParam) ==
    DigitsValue(IF StartsWithD(idParam) THEN SubSeq(idParam, 2, Len(idParam)) ELSE idParam)

\* a well-formed path segment names a record the backing store holds
Resolves(idParam) ==
    IF StartsWithD(idParam)
    THEN \E i \in DOMAIN airtable[DIVISIONS_TABLE] :
            LET f == airtable[DIVISIONS_TABLE][i].fields
            IN  "DataID" \in DOMAIN f /\ DigitsValue(f.DataID) = NumberOfId(idParam)
    ELSE /\ mainRecord # NoRecord
         /\ DigitsValue(mainRecord.fields.DataID) = NumberOfId(idParam)

\* the path segment with the leading zeros of its number left out
CanonicalId(idParam) ==
    (IF StartsWithD(idParam) THEN "d" ELSE "") \o NumberToString(NumberOfId(idParam))

CanonicalTitle(f) ==
    IF Get(f, "Title") # Undefined /\ Get(f, "Title") # "" THEN f.Title
    ELSE IF Get(f, "TitleEN") # Undefined THEN f.TitleEN
    ELSE ""

ListOps == { "GET /datasets", "GET /dataset/:country", "GET /dataset/:country/:category" }

\* C16: no item of a list response is made of a record whose canonical
\* title is missing, empty or all white space.
C16_ListedHaveTitle ==
    out.op \in ListOps /\ out.status = 200 =>
        \A i \in DOMAIN out.items :
            out.items[i].id = Or(Get(mainRecord.fields, "DataID"), mainRecord.id) =>
                Trim(CanonicalTitle(mainRecord.fields)) # ""


\* the calendar date of an item's lastUpdate counts when it is one
Parseable(item) == DateOf(item.meta.lastUpdate) # NaN

\* the ids of the records a list names: DataID of a main-table record, "d"
\* and DataID of a Divisions record
StoredIds ==
    { Or(Get(AllPoland[i].fields, "DataID"), AllPoland[i].id) : i \in DOMAIN AllPoland }
        \cup { "d" \o Or(Get(divisionsCache.map[i].v, "DataID"), divisionsCache.map[i].k) :
                 i \in DOMAIN divisionsCache.map }

\* C17: in the items of every list response, of two items whose lastUpdate is
\* a calendar date the one of the later date comes first; the items are the
\* surviving records, each once; and count is the length of items.
C17_SortedByLastUpdate ==
    out.op \in ListOps /\ out.status = 200 =>
        /\ out.count = Len(out.items)
        /\ \A i, j \in DOMAIN out.items :
              i # j => out.items[i].id # out.items[j].id
        /\ \A i \in DOMAIN out.items : out.items[i].id \in StoredIds
        /\ \A i, j \in DOMAIN out.items :
              i < j /\ Parseable(out.items[i]) /\ Parseable(out.items[j]) =>
                  DateOf(out.items[i].meta.lastUpdate).number
                      >= DateOf(out.items[j].meta.lastUpdate).number

\* the same, for the lists in which every lastUpdate is a calendar date
C17_SortedWhenAllParse ==
    out.op \in ListOps /\ out.status = 200
      /\ (\A i \in DOMAIN out.items : Parseable(out.items[i])) =>
        \A i, j \in DOMAIN out.items :
              i < j => DateOf(out.items[i].meta.lastUpdate).number
                          >= DateOf(out.items[j].meta.lastUpdate).number


\* the ids of the Categories records of the backing store whose English name
\* is the category and whose country is the one resolved from the parameter
CategoriesNamed(category, country) ==
    { airtable[CATS][i].id : i \in
        { i \in DOMAIN airtable[CATS] :
            /\ Get(airtable[CATS][i].fields, "SecondaryEN") # Undefined
            /\ Get(airtable[CATS][i].fields, "TitleEN") # Undefined
            /\ Trim(ToLowerCase(airtable[CATS][i].fields.SecondaryEN))
                  = Trim(ToLowerCase(category))
            /\ Trim(ToLowerCase(airtable[CATS][i].fields.TitleEN))
                  = ToLowerCase(IF Truthy(country)
                                THEN getCountryNameForFiltering(country)
                                ELSE "Poland") } }

\* the ids of the Content hubs records whose Title or TitleEN is the value,
\* letter case aside
HubsNamed(hub) ==
    { airtable[CONTENT_HUBS_TABLE][i].id : i \in
        { i \in DOMAIN airtable[CONTENT_HUBS_TABLE] :
            \E key \in { "Title", "TitleEN" } :
                /\ Get(airtable[CONTENT_HUBS_TABLE][i].fields, key) # Undefined
                /\ ToLowerCase(airtable[CONTENT_HUBS_TABLE][i].fields[key])
                      = ToLowerCase(hub) } }

\* the country name the category lookup of GET /datasets goes by
LookupCountry(country) ==
    IF Truthy(country) THEN getCountryNameForFiltering(country) ELSE "Poland"

\* a category that matches no Categories record of the country gives 404
\* naming the category and the country, and nothing is fetched
UnknownCategoryRefused ==
    Truthy(out.category) /\ CategoriesNamed(out.category, out.country) = {} =>
        /\ out.status = 404 /\ ~out.fetched
        /\ Contains(out.error, "\"" \o out.category \o "\"")
        /\ Contains(out.error, "\"" \o LookupCountry(out.country) \o "\"")

\* a content hub that matches no Content hubs record gives 404 naming the
\* hub, and nothing is fetched
UnknownHubRefused ==
    /\ out.status = 404 /\ ~out.fetched
    /\ Contains(out.error, "\"" \o out.contentHub \o "\"")

\* with both filters resolved the formula is AND of the two conditions, and
\* every record of the answer passes both
BothFiltersConjoined ==
    /\ Truthy(out.category) /\ CategoriesNamed(out.category, out.country) # {}
    /\ Truthy(out.contentHub) /\ HubsNamed(out.contentHub) # {}
    => /\ \E c \in CategoriesNamed(out.category, out.country), h \in HubsNamed(out.contentHub) :
             out.filterFormula = "AND(" \o CategoryCondition(c).text \o ","
                                     \o HubCondition(h).text \o ")"
       /\ \A i \in DOMAIN out.items :
             \E j \in DOMAIN AllPoland :
                /\ out.items[i].id = AllPoland[j].fields.DataID
                /\ \E c \in CategoriesNamed(out.category, out.country) :
                      InSeq(c, AllPoland[j].fields.CategorySelect)
                /\ "Content hubs in build" \in DOMAIN AllPoland[j].fields
                /\ \E h \in HubsNamed(out.contentHub) :
                      InSeq(h, AllPoland[j].fields["Content hubs in build"])

C19_HubNewsHandled ==
    /\ "segment" \in DOMAIN out
    /\ \E i \in DOMAIN airtable[CONTENT_HUBS_TABLE] :
          Get(airtable[CONTENT_HUBS_TABLE][i].fields, "TitleEN") = out.segment
    => /\ out.op = "GET /dataset/:country/:contenthub/news"
       /\ out.status # 404


\* the main-table or Divisions record an item of a list is made of is linked
\* to a Content hubs record named `hub`
ItemLinkedTo(item, hub) ==
    \E j \in DOMAIN AllPoland :
        /\ item.id = Or(Get(AllPoland[j].fields, "DataID"), AllPoland[j].id)
        /\ "Content hubs in build" \in DOMAIN AllPoland[j].fields
        /\ \E h \in HubsNamed(hub) : InSeq(h, AllPoland[j].fields["Content hubs in build"])

\* C20: GET /dataset/{country} and GET /dataset/{country}/{category} with
\* contentHub=H list only records linked to the Content hub of title H, and
\* an H that names no hub gives 404 naming H.
C20_HubFilterApplied ==
    /\ out.op \in { "GET /dataset/:country", "GET /dataset/:country/:category" }
    /\ Truthy(out.contentHub)
    => IF HubsNamed(out.contentHub) = {}
       THEN out.status = 404 /\ Contains(out.error, out.contentHub)
       ELSE \A i \in DOMAIN out.items : ItemLinkedTo(out.items[i], out.contentHub)


\* the path segment names a record the handler finds: a division of that
\* DataID in the Divisions sub-cache, or the main-table record of that DataID
Held(idParam) ==
    IF StartsWithD(idParam) THEN DivisionsOfId(NumericId(idParam)) # << >>
    ELSE MainRecordOfId(NumericId(idParam)) # NoRecord

\* the upstream call that brings the primary record of a path segment
PrimaryLookup(idParam) == IF StartsWithD(idParam) THEN "divisions" ELSE "primary"

\* C21: when the primary record of GET /data/{id} or GET /data/{id}/meta is
\* held and its own fetch does not fail, the response is 200 with the
\* record's title, whichever secondary lookup fails.
C21_EnrichmentBestEffort ==
    /\ out.op \in DetailOps /\ "failing" \in DOMAIN out
    /\ Held(out.id) /\ PrimaryLookup(out.id) \notin out.failing
    => /\ out.status = 200
       /\ out.meta.title # ""

\* a failing Metadata record fetch alone leaves the response at 200
C21_MetadataAbsent ==
    /\ out.op \in DetailOps /\ "failing" \in DOMAIN out
    /\ Held(out.id) /\ out.failing \subseteq { "metadata" }
    => out.status = 200


\* C23: handling a request never changes what the Lookup Cache holds: while
\* the Divisions sub-cache is served from memory (no reload, no
\* invalidation), a detail handler leaves the cached map, every field of
\* every Division record included, as it was.
C23_HandlersLeaveCacheAlone ==
    [][ServedFromCache(DIVISIONS_TABLE) => divisionsCache' = divisionsCache]_vars


\* the Divisions record of DataID 2 as the upstream table holds it
UpstreamDivision == Live(airtable[DIVISIONS_TABLE])[2].fields

\* C24: a d-prefixed identifier is answered from the Divisions record, and
\* the parent main-table record fills in only what the Division omits: when
\* the Division record has its own last update and its own description, a 200
\* response carries the Division's values.
C24_DivisionValueWins ==
    /\ out.op \in DetailOps /\ "failing" \in DOMAIN out
    /\ StartsWithD(out.id) /\ out.status = 200
    => /\ "UpdatedThere" \in DOMAIN UpstreamDivision
            => out.meta.lastUpdate = UpstreamDivision.UpdatedThere
       /\ "DescriptionEN" \in DOMAIN UpstreamDivision /\ out.q = Undefined
            => out.meta.description = UpstreamDivision.DescriptionEN

\* a division without a parent link, or whose parent is not in the main
\* table, is still answered 200 with its own title
C24_OrphanStillAnswered ==
    /\ out.op \in DetailOps /\ "failing" \in DOMAIN out
    /\ StartsWithD(out.id) /\ out.failing = {} /\ Held(out.id)
    /\ ("Main_Data" \notin DOMAIN UpstreamDivision \/ mainRecord = NoRecord)
    => /\ out.status = 200
       /\ out.meta.title = "South"


\* the ids of the Divisions records of the sub-cache whose Main_Data
\* contains mainRecordId
LinkedByMainData(mainRecordId) ==
    { divisionsCache.map[i].k : i \in { j \in DOMAIN divisionsCache.map :
          /\ "Main_Data" \in DOMAIN divisionsCache.map[j].v
          /\ InSeq(mainRecordId, divisionsCache.map[j].v["Main_Data"]) } }

\* C25: the divisions of the unified record of a main-table record are
\* exactly the Divisions records of the sub-cache whose parent link
\* (Main_Data) contains the record's id, each once.
C25_LinkedDivisionsByParentLink ==
    out.op = "GET /data/:numericId/unified" /\ out.status = 200
    => /\ { out.meta.divisions[i].id : i \in DOMAIN out.meta.divisions }
              = LinkedByMainData(mainRecord.id)
       /\ \A i, j \in DOMAIN out.meta.divisions :
              out.meta.divisions[i].id = out.meta.divisions[j].id => i = j


\* the text a SecondaryEN or TitleEN cell is compared by: its first element
\* when it is a list, nothing when it is missing, in lower case and without
\* surrounding whitespace
Canonical(cell) ==
    IF cell = Undefined THEN ""
    ELSE ToLowerCase(Trim(IF IsArray(cell) THEN Split(SubSeq(cell, 2, Len(cell) - 1), ",")[1]
                          ELSE cell))

\* the places of the Categories sub-cache whose record matches both names
MatchingBoth(categoryName, countryName) ==
    { i \in DOMAIN categoryMapCache.map :
        /\ Canonical(Get(categoryMapCache.map[i].v, "SecondaryEN")) = Canonical(categoryName)
        /\ Canonical(Get(categoryMapCache.map[i].v, "TitleEN")) = Canonical(countryName) }

\* C26: getCategoryIdByName returns the id of the first record, in the
\* iteration order of the sub-cache, whose SecondaryEN and TitleEN both equal
\* the names asked for, compared without case and surrounding whitespace and
\* by the first element of a list; it returns null when no record matches
\* both, and never a record that matches only one.
C26_FirstRecordMatchingBoth ==
    out.op = "getCategoryIdByName" =>
        LET both == MatchingBoth(out.category, out.country)
        IN  /\ both = {} => out.categoryId = JsNull
            /\ both # {} =>
                  \E i \in both :
                      /\ out.categoryId = categoryMapCache.map[i].k
                      /\ \A j \in both : i <= j

\* two records match both names, the first through a list cell and in
\* another case, and the first is returned
C26_Witness ==
    /\ out.op = "getCategoryIdByName"
    /\ Cardinality(MatchingBoth(out.category, out.country)) = 2
    /\ out.categoryId = "recC1"
    /\ IsArray(categoryMapCache.map[1].v.TitleEN)
    /\ Get(categoryMapCache.map[1].v, "SecondaryEN") = " ECONOMY"
    /\ out.country = "POLAND"


\* what a finished pagination of table t gives, the table as it is
FullLoad(t) == StoreRecords(t, EmptyMap, Live(airtable[t]))

\* request r leaves its getter in this step, by its last page or by a failure
Finishes(r) == req[r].pc = "fetching" /\ req'[r].pc = "idle"

\* no request is left reloading table t after this step
NoneLeft(t) == \A s \in Reqs : ~(req'[s].pc = "fetching" /\ req'[s].table = t)

\* a second request may start its own reload of a sub-cache while a first
\* is in flight, and each reload that ends its pagination has read every page
RacingReloadsAreFull ==
    /\ [](\A t \in Tables, r, s \in Reqs :
            /\ req[r].pc = "fetching" /\ req[r].table = t
            /\ s # r /\ req[s].pc = "idle" /\ ~ServedFromCache(t)
            => ENABLED CallMiss(s, t))
    /\ [][ \A r \in Reqs, t \in Tables :
             req[r].table = t /\ Completes(r) =>
                 /\ last'.pages = PagesOf(airtable[t])
                 /\ last'.ret = FullLoad(t)
       ]_vars

\* cacheLastLoaded decreases only by POST /cache/refresh
ClockDecreasesByRefreshOnly ==
    [][ cacheLastLoaded' < cacheLastLoaded => \E header \in Headers : CacheRefresh(header) ]_vars

Rethrowing == Tables \ { DIVISIONS_TABLE }

DivisionsKnownEmpty == divisionsCache = Loaded(EmptyMap) /\ isCacheFresh

\* the DataIDs asked of GET /data/d{n}
DivisionIdsAsked == { JsNumber(1), JsNumber(2) }

\* A failed load of Divisions stores the empty map and the time of the
\* failure, which makes every non-null sub-cache fresh; from then on the
\* getter answers the empty map from memory, in which the lookup of
\* GET /data/d{n} finds no record (404), and sends no request.
FailedDivisionsLoadRemembered ==
    /\ [][ \A r \in Reqs :
             req[r].table = DIVISIONS_TABLE /\ Finishes(r) /\ ~Completes(r) =>
                 /\ last'.status = 200 /\ last'.ret = EmptyMap
                 /\ divisionsCache' = Loaded(EmptyMap)
                 /\ cacheLastLoaded' = now
                 /\ \A u \in Tables : ~CacheOf(u)'.null => ServedFromCache(u)'
       ]_vars
    /\ [](DivisionsKnownEmpty =>
             /\ ENABLED CallHit(DIVISIONS_TABLE)
             /\ \A r \in Reqs : ~ENABLED CallMiss(r, DIVISIONS_TABLE))
    /\ [][ DivisionsKnownEmpty /\ CallHit(DIVISIONS_TABLE) =>
             /\ last'.ret = EmptyMap
             /\ \A n \in DivisionIdsAsked : FoundIn(last'.ret, n) = << >>
             /\ UNCHANGED <<req, cacheVars>>
       ]_vars

\* C30 as stated: a failed load of Divisions is remembered as a successful
\* empty load, and the empty map stays what loadAllDivisions returns until
\* the TTL expires or the cache is invalidated.
C30_EmptyUntilExpiry ==
    /\ FailedDivisionsLoadRemembered
    /\ [][ DivisionsKnownEmpty /\ divisionsCache' # divisionsCache =>
             \E header \in Headers : CacheRefresh(header) ]_vars

\* C30 amended: a failed load of Divisions is remembered as a successful
\* empty load, and the empty map stays what loadAllDivisions returns until
\* the TTL expires, the cache is invalidated, or a reload of Divisions that
\* was in flight when the load failed ends its pagination and stores its map.
C30_EmptyUntilExpiryOrRacingReload ==
    /\ FailedDivisionsLoadRemembered
    /\ [][ DivisionsKnownEmpty /\ divisionsCache' # divisionsCache =>
             \/ \E header \in Headers : CacheRefresh(header)
             \/ \E r \in Reqs : req[r].table = DIVISIONS_TABLE /\ Completes(r) ]_vars

\* after a failed load of Divisions, and later than it, the getter answered
\* the empty map from memory although the table holds records, the
\* Categories sub-cache loaded
C30_Witness ==
    /\ last.op = "load" /\ last.table = DIVISIONS_TABLE /\ last.hit
    /\ last.ret = EmptyMap /\ divisionsCache = Loaded(EmptyMap)
    /\ Live(airtable[DIVISIONS_TABLE]) # << >>
    /\ now > cacheLastLoaded
    /\ ~categoryMapCache.null


\* C27: every pagination loop ends. It asks for one page per offset token,
\* stops at the first page without a token, and then has the records of every
\* page in order; a page that fails ends the loop with an error, or with the
\* empty map for Divisions; and every loop that was started is left after
\* finitely many requests.
C27_PaginationTerminates ==
    /\ \A r \in Reqs : (req[r].pc # "idle") ~> (req[r].pc = "idle")
    /\ [][ \A r \in Reqs :
             /\ req[r].pc # "idle" /\ req'[r] # req[r] /\ req'[r].pc # "idle" =>
                   /\ ListPage(airtable[req[r].table], req[r].offset).offset # NoOffset
                   /\ req'[r].offset = ListPage(airtable[req[r].table], req[r].offset).offset
                   /\ req'[r].pages = req[r].pages + 1
             /\ req[r].pc # "idle" /\ req'[r].pc = "idle" /\ last'.error = << >> =>
                   \/ /\ ListPage(airtable[req[r].table], req[r].offset).offset = NoOffset
                      /\ last'.pages = PagesOf(airtable[req[r].table])
                      /\ last'.ret = IF req[r].table = MAIN THEN Live(airtable[MAIN])
                                     ELSE FullLoad(req[r].table)
                   \/ /\ req[r].table = DIVISIONS_TABLE
                      /\ last'.ret = EmptyMap /\ last'.pages = req[r].pages
             /\ req[r].pc # "idle" /\ req'[r].pc = "idle" /\ last'.error # << >> =>
                   last'.status = 500 /\ last'.pages = req[r].pages
       ]_vars

\* both loops have run to their end: the list fetch of GET /datasets has read
\* the main table in as many pages as it has, and a getter before it
C27_Witness ==
    /\ last.op = "list" /\ last.status = 0
    /\ last.pages = PagesOf(airtable[MAIN]) /\ last.pages >= 2
    /\ last.ret = Live(airtable[MAIN])
    /\ contentHubsCache = Loaded(FullLoad(CONTENT_HUBS_TABLE))
    /\ \A r \in Reqs : req[r].pc = "idle"


\* C28: no sub-cache is served from the same load forever: while time keeps
\* advancing and each of the four getters keeps being called, each sub-cache
\* is reloaded from upstream again and again.
C28_EveryCacheReloadedAgain ==
    \A t \in Tables :
        []<>(last.op = "load" /\ last.table = t /\ ~last.hit /\ last.status = 200)

====
